--------------------------- MODULE Spec2Model ---------------------------
(***************************************************************************)
(* Model of the Graphite document node type registry, the node            *)
(* instantiation and scope-wrapping operations built on it, and the lazy  *)
(* construction of the registry.                                           *)
(*                                                                         *)
(* Strings that the code compares character by character (node type names *)
(* and categories) are sequences of one-character strings, so that exact  *)
(* and ASCII-case-insensitive comparison are different operations.         *)
(***************************************************************************)
EXTENDS Integers, Sequences, FiniteSets, TLC

VARIABLES
    features,   \* cargo features the binary was built with (cfg attributes)
    cell,       \* DOCUMENT_NODE_TYPES: the once_cell Lazy holding the catalog
    builds,     \* number of runs of static_nodes so far
    call,       \* the last call made on the registry / compiler API
    ret,        \* what that call returned (or that it panicked)
    tpc,        \* per thread: position inside Lazy::force
    top,        \* per thread: the registry call the thread is making
    tret,       \* per thread: what the thread's call returned
    fsm_state   \* EyedropperTool.fsm_state

vars == <<features, cell, builds, call, ret, tpc, top, tret, fsm_state>>

---------------------------------------------------------------------------
(* Bounds of the model.                                                    *)

\* Largest number of nodes of a generated document network.
MaxNodes == 2
\* Deepest nesting of networks inside nodes of a generated network.
MaxDepth == 2
\* How many inputs more than a descriptor declares a caller may pass.
MaxExtra == 2
\* Number of threads racing for the first access of the catalog.
NumThreads == 2
\* Deepest nesting of groups and artboards in a generated scene.
MaxSceneDepth == 2

---------------------------------------------------------------------------
(* graph_craft values as they are written in the catalog.                  *)

TaggedValue(tag, val) == [tag |-> tag, val |-> val]

NodeInput_value(tagged_value, exposed) ==
    [kind |-> "Value", tagged_value |-> tagged_value, exposed |-> exposed]
NodeInput_Network(ty) == [kind |-> "Network", ty |-> ty]
NodeInput_ShortCircut(ty) == [kind |-> "ShortCircut", ty |-> ty]
NodeInput_node(node_id, output_index) ==
    [kind |-> "Node", node_id |-> node_id, output_index |-> output_index, lambda |-> FALSE]
NodeInput_lambda(node_id, output_index) ==
    [kind |-> "Node", node_id |-> node_id, output_index |-> output_index, lambda |-> TRUE]

NodeOutput_new(node_id, node_output_index) ==
    [node_id |-> node_id, node_output_index |-> node_output_index]

NodeNetwork(inputs, outputs, nodes) == [inputs |-> inputs, outputs |-> outputs, nodes |-> nodes]

Unresolved(ident) == [kind |-> "Unresolved", ident |-> ident]
NetworkImpl(network) == [kind |-> "Network", network |-> network]
ExtractImpl == [kind |-> "Extract"]

DefaultMetadata == [position |-> <<0, 0>>]
DocumentNodeMetadata_position(p) == [position |-> p]

\* Option<Vec<NodeId>>: the path of a node, absent until paths are generated.
NoPath == [some |-> FALSE, value |-> <<>>]
SomePath(path) == [some |-> TRUE, value |-> path]

\* DocumentNode { name, inputs, implementation, metadata, ..Default::default() }
DocumentNode(name, inputs, implementation, metadata) ==
    [name |-> name, inputs |-> inputs, implementation |-> implementation, metadata |-> metadata,
     path |-> NoPath]

\* FrontendGraphDataType::with_tagged_value: the data type shown for a literal.
with_tagged_value(value) ==
    CASE value.tag = "String" -> "Text"
      [] value.tag \in {"F32", "F64", "U32", "DAffine2"} -> "Number"
      [] value.tag = "Bool" -> "Boolean"
      [] value.tag \in {"DVec2", "IVec2"} -> "Vector"
      [] value.tag \in {"Image", "ImageFrame"} -> "Raster"
      [] value.tag = "Color" -> "Color"
      [] value.tag \in {"RcSubpath", "Subpaths", "VectorData"} -> "Subpath"
      [] value.tag = "GraphicGroup" -> "GraphicGroup"
      [] value.tag = "Artboard" -> "Artboard"
      [] OTHER -> "General"

DocumentInputType_new(name, data_type, default) ==
    [name |-> name, data_type |-> data_type, default |-> default]
DocumentInputType_value(name, tagged_value, exposed) ==
    [name |-> name, data_type |-> with_tagged_value(tagged_value),
     default |-> NodeInput_value(tagged_value, exposed)]
DocumentInputType_none ==
    [name |-> "None", data_type |-> "General",
     default |-> NodeInput_value(TaggedValue("None", ""), FALSE)]

DocumentOutputType_new(name, data_type) == [name |-> name, data_type |-> data_type]

---------------------------------------------------------------------------
(* The catalog: static_nodes() and IMAGINATE_NODE.  Each entry carries the *)
(* cargo feature that gates it ("" when it is always compiled in).         *)

IMAGINATE_NODE ==
    \* Imaginate (lines 1964-2039)
    [name |-> <<"I","m","a","g","i","n","a","t","e">>,
     category |-> <<"I","m","a","g","e"," ","S","y","n","t","h","e","s","i","s">>,
     feature |-> "",
     identifier |-> [kind |-> "DocumentNode", network |->
        [inputs |-> <<0, 1, 1, 1, 1, 1, 1, 1, 1, 1, 1, 1, 1, 1, 1, 1, 1, 1>>,
         outputs |-> <<NodeOutput_new(1, 0)>>,
         nodes |-> (
          (0 :> DocumentNode(<<"F","r","a","m","e"," ","M","o","n","i","t","o","r">>,
              <<NodeInput_Network("concrete!(ImageFrame<Color>)")>>,
              Unresolved("graphene_core::memo::MonitorNode<_>"), DefaultMetadata))
          @@ (1 :> DocumentNode(<<"I","m","a","g","i","n","a","t","e">>,
              <<NodeInput_node(0, 0), NodeInput_Network("concrete!(WasmEditorApi)"), NodeInput_Network("concrete!(ImaginateController)"), NodeInput_Network("concrete!(f64)"), NodeInput_Network("concrete!(Option<DVec2>)"), NodeInput_Network("concrete!(u32)"), NodeInput_Network("concrete!(ImaginateSamplingMethod)"), NodeInput_Network("concrete!(f32)"), NodeInput_Network("concrete!(String)"), NodeInput_Network("concrete!(String)"), NodeInput_Network("concrete!(bool)"), NodeInput_Network("concrete!(f32)"), NodeInput_Network("concrete!(Option<Vec<u64>>)"), NodeInput_Network("concrete!(bool)"), NodeInput_Network("concrete!(f32)"), NodeInput_Network("concrete!(ImaginateMaskStartingFill)"), NodeInput_Network("concrete!(bool)"), NodeInput_Network("concrete!(bool)")>>,
              Unresolved("graphene_std::raster::ImaginateNode<_, _, _, _, _, _, _, _, _, _, _, _, _, _, _, _, _, _>"), DefaultMetadata)))]],
     inputs |-> <<
       DocumentInputType_value("Input Image", TaggedValue("ImageFrame", "ImageFrame::empty()"), TRUE),
       DocumentInputType_new("Editor Api", "General", NodeInput_Network("concrete!(WasmEditorApi)")),
       DocumentInputType_value("Controller", TaggedValue("ImaginateController", "Default::default()"), FALSE),
       DocumentInputType_value("Seed", TaggedValue("F64", "0."), FALSE),
       DocumentInputType_value("Resolution", TaggedValue("OptionalDVec2", "None"), FALSE),
       DocumentInputType_value("Samples", TaggedValue("U32", "30"), FALSE),
       DocumentInputType_value("Sampling Method", TaggedValue("ImaginateSamplingMethod", "ImaginateSamplingMethod::EulerA"), FALSE),
       DocumentInputType_value("Prompt Guidance", TaggedValue("F32", "7.5"), FALSE),
       DocumentInputType_value("Prompt", TaggedValue("String", "String::new()"), FALSE),
       DocumentInputType_value("Negative Prompt", TaggedValue("String", "String::new()"), FALSE),
       DocumentInputType_value("Adapt Input Image", TaggedValue("Bool", "false"), FALSE),
       DocumentInputType_value("Image Creativity", TaggedValue("F32", "66."), FALSE),
       DocumentInputType_value("Masking Layer", TaggedValue("LayerPath", "None"), FALSE),
       DocumentInputType_value("Inpaint", TaggedValue("Bool", "true"), FALSE),
       DocumentInputType_value("Mask Blur", TaggedValue("F32", "4."), FALSE),
       DocumentInputType_value("Mask Starting Fill", TaggedValue("ImaginateMaskStartingFill", "ImaginateMaskStartingFill::Fill"), FALSE),
       DocumentInputType_value("Improve Faces", TaggedValue("Bool", "false"), FALSE),
       DocumentInputType_value("Tiling", TaggedValue("Bool", "false"), FALSE)>>,
     outputs |-> <<DocumentOutputType_new("Image", "Raster")>>,
     primary_output |-> FALSE,
     properties |-> "node_properties::imaginate_properties"]

all_static_nodes ==
  <<
    \* Boolean (lines 127-135)
    [name |-> <<"B","o","o","l","e","a","n">>,
     category |-> <<"I","n","p","u","t","s">>,
     feature |-> "",
     identifier |-> [kind |-> "ProtoNode", ident |-> "graphene_core::ops::IdNode"],
     inputs |-> <<
       DocumentInputType_value("Bool", TaggedValue("Bool", "true"), FALSE)>>,
     outputs |-> <<DocumentOutputType_new("Out", "Boolean")>>,
     primary_output |-> FALSE,
     properties |-> "node_properties::boolean_properties"],
    \* Value (lines 136-144)
    [name |-> <<"V","a","l","u","e">>,
     category |-> <<"I","n","p","u","t","s">>,
     feature |-> "",
     identifier |-> [kind |-> "ProtoNode", ident |-> "graphene_core::ops::IdNode"],
     inputs |-> <<
       DocumentInputType_value("Value", TaggedValue("F32", "0."), FALSE)>>,
     outputs |-> <<DocumentOutputType_new("Out", "Number")>>,
     primary_output |-> FALSE,
     properties |-> "node_properties::value_properties"],
    \* Color (lines 145-153)
    [name |-> <<"C","o","l","o","r">>,
     category |-> <<"I","n","p","u","t","s">>,
     feature |-> "",
     identifier |-> [kind |-> "ProtoNode", ident |-> "graphene_core::ops::IdNode"],
     inputs |-> <<
       DocumentInputType_value("Value", TaggedValue("OptionalColor", "None"), FALSE)>>,
     outputs |-> <<DocumentOutputType_new("Out", "Color")>>,
     primary_output |-> FALSE,
     properties |-> "node_properties::color_properties"],
    \* Identity (lines 154-166)
    [name |-> <<"I","d","e","n","t","i","t","y">>,
     category |-> <<"S","t","r","u","c","t","u","r","a","l">>,
     feature |-> "",
     identifier |-> [kind |-> "ProtoNode", ident |-> "graphene_core::ops::IdNode"],
     inputs |-> <<
       DocumentInputType_new("In", "General", NodeInput_value(TaggedValue("None", ""), TRUE))>>,
     outputs |-> <<DocumentOutputType_new("Out", "General")>>,
     primary_output |-> FALSE,
     properties |-> "|_document_node, _node_id, _context| node_properties::string_properties(\"The identity node simply returns the input\")"],
    \* Monitor (lines 167-179)
    [name |-> <<"M","o","n","i","t","o","r">>,
     category |-> <<"S","t","r","u","c","t","u","r","a","l">>,
     feature |-> "",
     identifier |-> [kind |-> "ProtoNode", ident |-> "graphene_core::ops::IdNode"],
     inputs |-> <<
       DocumentInputType_new("In", "General", NodeInput_value(TaggedValue("None", ""), TRUE))>>,
     outputs |-> <<DocumentOutputType_new("Out", "General")>>,
     primary_output |-> FALSE,
     properties |-> "|_document_node, _node_id, _context| node_properties::string_properties(\"The Monitor node stores the value of its last evaluation\")"],
    \* Layer (lines 180-230)
    [name |-> <<"L","a","y","e","r">>,
     category |-> <<"G","e","n","e","r","a","l">>,
     feature |-> "",
     identifier |-> [kind |-> "DocumentNode", network |->
        [inputs |-> <<0, 0, 0, 0, 0, 0, 0, 0>>,
         outputs |-> <<NodeOutput_new(1, 0)>>,
         nodes |-> (
          (0 :> DocumentNode(<<>>,
              <<NodeInput_Network("concrete!(graphene_core::vector::VectorData)"), NodeInput_Network("concrete!(String)"), NodeInput_Network("concrete!(BlendMode)"), NodeInput_Network("concrete!(f32)"), NodeInput_Network("concrete!(bool)"), NodeInput_Network("concrete!(bool)"), NodeInput_Network("concrete!(bool)"), NodeInput_Network("concrete!(graphene_core::GraphicGroup)")>>,
              Unresolved("graphene_core::ConstructLayerNode<_, _, _, _, _, _, _>"), DefaultMetadata))
          @@ (1 :> DocumentNode(<<>>,
              <<NodeInput_node(0, 0)>>,
              Unresolved("graphene_core::memo::MonitorNode<_>"), DefaultMetadata)))]],
     inputs |-> <<
       DocumentInputType_value("Vector Data", TaggedValue("VectorData", "graphene_core::vector::VectorData::empty()"), TRUE),
       DocumentInputType_value("Name", TaggedValue("String", "String::new()"), FALSE),
       DocumentInputType_value("Blend Mode", TaggedValue("BlendMode", "BlendMode::Normal"), FALSE),
       DocumentInputType_value("Opacity", TaggedValue("F32", "100."), FALSE),
       DocumentInputType_value("Visible", TaggedValue("Bool", "true"), FALSE),
       DocumentInputType_value("Locked", TaggedValue("Bool", "false"), FALSE),
       DocumentInputType_value("Collapsed", TaggedValue("Bool", "false"), FALSE),
       DocumentInputType_value("Stack", TaggedValue("GraphicGroup", "GraphicGroup::EMPTY"), TRUE)>>,
     outputs |-> <<DocumentOutputType_new("Out", "GraphicGroup")>>,
     primary_output |-> FALSE,
     properties |-> "node_properties::layer_properties"],
    \* Artboard (lines 231-245)
    [name |-> <<"A","r","t","b","o","a","r","d">>,
     category |-> <<"G","e","n","e","r","a","l">>,
     feature |-> "",
     identifier |-> [kind |-> "ProtoNode", ident |-> "graphene_core::ConstructArtboardNode<_, _, _, _>"],
     inputs |-> <<
       DocumentInputType_value("Graphic Group", TaggedValue("GraphicGroup", "GraphicGroup::EMPTY"), TRUE),
       DocumentInputType_value("Location", TaggedValue("IVec2", "glam::IVec2::ZERO"), FALSE),
       DocumentInputType_value("Dimensions", TaggedValue("IVec2", "glam::IVec2::new(1920, 1080)"), FALSE),
       DocumentInputType_value("Background", TaggedValue("Color", "Color::WHITE"), FALSE),
       DocumentInputType_value("Clip", TaggedValue("Bool", "false"), FALSE)>>,
     outputs |-> <<DocumentOutputType_new("Out", "Artboard")>>,
     primary_output |-> FALSE,
     properties |-> "node_properties::artboard_properties"],
    \* Downres (lines 246-283)
    [name |-> <<"D","o","w","n","r","e","s">>,
     category |-> <<"R","a","s","t","e","r">>,
     feature |-> "",
     identifier |-> [kind |-> "DocumentNode", network |->
        [inputs |-> <<0>>,
         outputs |-> <<NodeOutput_new(1, 0)>>,
         nodes |-> (
          (0 :> DocumentNode(<<"D","o","w","n","r","e","s">>,
              <<NodeInput_Network("concrete!(ImageFrame<Color>)")>>,
              Unresolved("graphene_std::raster::DownresNode<_>"), DefaultMetadata))
          @@ (1 :> DocumentNode(<<"C","a","c","h","e">>,
              <<NodeInput_ShortCircut("concrete!(())"), NodeInput_node(0, 0)>>,
              Unresolved("graphene_core::memo::MemoNode<_, _>"), DefaultMetadata)))]],
     inputs |-> <<
       DocumentInputType_value("Image", TaggedValue("ImageFrame", "ImageFrame::empty()"), FALSE)>>,
     outputs |-> <<DocumentOutputType_new("Image", "Raster")>>,
     primary_output |-> FALSE,
     properties |-> "|_document_node, _node_id, _context| node_properties::string_properties(\"Downres the image to a lower resolution\")"],
    \* Input Frame (lines 296-311)
    [name |-> <<"I","n","p","u","t"," ","F","r","a","m","e">>,
     category |-> <<"I","g","n","o","r","e">>,
     feature |-> "",
     identifier |-> [kind |-> "ProtoNode", ident |-> "graphene_core::ExtractImageFrame"],
     inputs |-> <<
       DocumentInputType_new("In", "General", NodeInput_Network("concrete!(WasmEditorApi)"))>>,
     outputs |-> <<DocumentOutputType_new("Image Frame", "Raster")>>,
     primary_output |-> FALSE,
     properties |-> "node_properties::input_properties"],
    \* Load Image (lines 312-356)
    [name |-> <<"L","o","a","d"," ","I","m","a","g","e">>,
     category |-> <<"S","t","r","u","c","t","u","r","a","l">>,
     feature |-> "",
     identifier |-> [kind |-> "DocumentNode", network |->
        [inputs |-> <<0, 0>>,
         outputs |-> <<NodeOutput_new(1, 0)>>,
         nodes |-> (
          (0 :> DocumentNode(<<"L","o","a","d"," ","R","e","s","o","u","r","c","e">>,
              <<NodeInput_Network("concrete!(WasmEditorApi)"), NodeInput_Network("concrete!(String)")>>,
              Unresolved("graphene_std::wasm_application_io::LoadResourceNode<_>"), DefaultMetadata))
          @@ (1 :> DocumentNode(<<"D","e","c","o","d","e"," ","I","m","a","g","e">>,
              <<NodeInput_node(0, 0)>>,
              Unresolved("graphene_std::wasm_application_io::DecodeImageNode"), DefaultMetadata)))]],
     inputs |-> <<
       DocumentInputType_new("api", "General", NodeInput_Network("concrete!(WasmEditorApi)")),
       DocumentInputType_new("path", "General", NodeInput_value(TaggedValue("String", "\"graphite:null\".to_string()"), FALSE))>>,
     outputs |-> <<DocumentOutputType_new("Image Frame", "Raster")>>,
     primary_output |-> FALSE,
     properties |-> "node_properties::load_image_properties"],
    \* Create Canvas (lines 357-393)
    [name |-> <<"C","r","e","a","t","e"," ","C","a","n","v","a","s">>,
     category |-> <<"S","t","r","u","c","t","u","r","a","l">>,
     feature |-> "",
     identifier |-> [kind |-> "DocumentNode", network |->
        [inputs |-> <<0>>,
         outputs |-> <<NodeOutput_new(1, 0)>>,
         nodes |-> (
          (0 :> DocumentNode(<<"C","r","e","a","t","e"," ","C","a","n","v","a","s">>,
              <<NodeInput_Network("concrete!(WasmEditorApi)")>>,
              Unresolved("graphene_std::wasm_application_io::CreateSurfaceNode"), DefaultMetadata))
          @@ (1 :> DocumentNode(<<"C","a","c","h","e">>,
              <<NodeInput_ShortCircut("concrete!(())"), NodeInput_node(0, 0)>>,
              Unresolved("graphene_core::memo::MemoNode<_, _>"), DefaultMetadata)))]],
     inputs |-> <<
       DocumentInputType_new("In", "General", NodeInput_Network("concrete!(WasmEditorApi)"))>>,
     outputs |-> <<DocumentOutputType_new("Canvas", "General")>>,
     primary_output |-> FALSE,
     properties |-> "node_properties::no_properties"],
    \* Draw Canvas (lines 394-449)
    [name |-> <<"D","r","a","w"," ","C","a","n","v","a","s">>,
     category |-> <<"S","t","r","u","c","t","u","r","a","l">>,
     feature |-> "",
     identifier |-> [kind |-> "DocumentNode", network |->
        [inputs |-> <<0, 2>>,
         outputs |-> <<NodeOutput_new(3, 0)>>,
         nodes |-> (
          (0 :> DocumentNode(<<"C","o","n","v","e","r","t"," ","I","m","a","g","e"," ","F","r","a","m","e">>,
              <<NodeInput_Network("concrete!(ImageFrame<Color>)")>>,
              Unresolved("graphene_core::ops::IntoNode<_, ImageFrame<SRGBA8>>"), DefaultMetadata))
          @@ (1 :> DocumentNode(<<"C","r","e","a","t","e"," ","C","a","n","v","a","s">>,
              <<NodeInput_Network("concrete!(WasmEditorApi)")>>,
              Unresolved("graphene_std::wasm_application_io::CreateSurfaceNode"), DefaultMetadata))
          @@ (2 :> DocumentNode(<<"C","a","c","h","e">>,
              <<NodeInput_ShortCircut("concrete!(())"), NodeInput_node(1, 0)>>,
              Unresolved("graphene_core::memo::MemoNode<_, _>"), DefaultMetadata))
          @@ (3 :> DocumentNode(<<"D","r","a","w"," ","C","a","n","v","a","s">>,
              <<NodeInput_node(0, 0), NodeInput_node(2, 0)>>,
              Unresolved("graphene_std::wasm_application_io::DrawImageFrameNode<_>"), DefaultMetadata)))]],
     inputs |-> <<
       DocumentInputType_new("In", "Raster", NodeInput_value(TaggedValue("ImageFrame", "ImageFrame::empty()"), TRUE)),
       DocumentInputType_new("In", "General", NodeInput_Network("concrete!(WasmEditorApi)"))>>,
     outputs |-> <<DocumentOutputType_new("Canvas", "General")>>,
     primary_output |-> FALSE,
     properties |-> "node_properties::no_properties"],
    \* Begin Scope (lines 450-500)
    [name |-> <<"B","e","g","i","n"," ","S","c","o","p","e">>,
     category |-> <<"I","g","n","o","r","e">>,
     feature |-> "",
     identifier |-> [kind |-> "DocumentNode", network |->
        [inputs |-> <<0>>,
         outputs |-> <<NodeOutput_new(1, 0), NodeOutput_new(2, 0)>>,
         nodes |-> (
          (0 :> DocumentNode(<<"S","e","t","N","o","d","e">>,
              <<NodeInput_ShortCircut("concrete!(WasmEditorApi)")>>,
              Unresolved("graphene_core::ops::SomeNode"), DefaultMetadata))
          @@ (1 :> DocumentNode(<<"L","e","t","N","o","d","e">>,
              <<NodeInput_node(0, 0)>>,
              Unresolved("graphene_core::memo::LetNode<_>"), DefaultMetadata))
          @@ (2 :> DocumentNode(<<"R","e","f","N","o","d","e">>,
              <<NodeInput_ShortCircut("concrete!(())"), NodeInput_lambda(1, 0)>>,
              Unresolved("graphene_core::memo::RefNode<_, _>"), DefaultMetadata)))]],
     inputs |-> <<
       DocumentInputType_new("In", "Raster", NodeInput_Network("concrete!(WasmEditorApi)"))>>,
     outputs |-> <<DocumentOutputType_new("Scope", "General"), DocumentOutputType_new("Binding", "Raster")>>,
     primary_output |-> FALSE,
     properties |-> "|_document_node, _node_id, _context| node_properties::string_properties(\"Binds the input in a local scope as a variable\")"],
    \* End Scope (lines 501-523)
    [name |-> <<"E","n","d"," ","S","c","o","p","e">>,
     category |-> <<"I","g","n","o","r","e">>,
     feature |-> "",
     identifier |-> [kind |-> "ProtoNode", ident |-> "graphene_core::memo::EndLetNode<_>"],
     inputs |-> <<
       DocumentInputType_new("Scope", "General", NodeInput_value(TaggedValue("None", ""), TRUE)),
       DocumentInputType_new("Data", "Raster", NodeInput_value(TaggedValue("ImageFrame", "ImageFrame::empty()"), TRUE))>>,
     outputs |-> <<DocumentOutputType_new("Frame", "Raster")>>,
     primary_output |-> FALSE,
     properties |-> "|_document_node, _node_id, _context| node_properties::string_properties(\"The graph's output is drawn in the layer\")"],
    \* Output (lines 524-536)
    [name |-> <<"O","u","t","p","u","t">>,
     category |-> <<"I","g","n","o","r","e">>,
     feature |-> "",
     identifier |-> [kind |-> "ProtoNode", ident |-> "graphene_core::ops::IdNode"],
     inputs |-> <<
       DocumentInputType_new("Output", "Raster", NodeInput_value(TaggedValue("ImageFrame", "ImageFrame::empty()"), TRUE))>>,
     outputs |-> <<>>,
     primary_output |-> FALSE,
     properties |-> "node_properties::output_properties"],
    \* Image Frame (lines 537-548)
    [name |-> <<"I","m","a","g","e"," ","F","r","a","m","e">>,
     category |-> <<"G","e","n","e","r","a","l">>,
     feature |-> "",
     identifier |-> [kind |-> "ProtoNode", ident |-> "graphene_std::raster::ImageFrameNode<_, _>"],
     inputs |-> <<
       DocumentInputType_value("Image", TaggedValue("Image", "Image::empty()"), TRUE),
       DocumentInputType_value("Transform", TaggedValue("DAffine2", "DAffine2::IDENTITY"), TRUE)>>,
     outputs |-> <<DocumentOutputType_new("Image", "Raster")>>,
     primary_output |-> FALSE,
     properties |-> "|_document_node, _node_id, _context| node_properties::string_properties(\"Creates an embedded image with the given transform\")"],
    \* Mask (lines 549-560)
    [name |-> <<"M","a","s","k">>,
     category |-> <<"I","m","a","g","e"," ","A","d","j","u","s","t","m","e","n","t","s">>,
     feature |-> "",
     identifier |-> [kind |-> "ProtoNode", ident |-> "graphene_std::raster::MaskImageNode<_, _, _>"],
     inputs |-> <<
       DocumentInputType_value("Image", TaggedValue("ImageFrame", "ImageFrame::empty()"), TRUE),
       DocumentInputType_value("Stencil", TaggedValue("ImageFrame", "ImageFrame::empty()"), TRUE)>>,
     outputs |-> <<DocumentOutputType_new("Image", "Raster")>>,
     primary_output |-> FALSE,
     properties |-> "node_properties::mask_properties"],
    \* Insert Channel (lines 561-573)
    [name |-> <<"I","n","s","e","r","t"," ","C","h","a","n","n","e","l">>,
     category |-> <<"I","m","a","g","e"," ","A","d","j","u","s","t","m","e","n","t","s">>,
     feature |-> "",
     identifier |-> [kind |-> "ProtoNode", ident |-> "graphene_std::raster::InsertChannelNode<_, _, _, _>"],
     inputs |-> <<
       DocumentInputType_value("Image", TaggedValue("ImageFrame", "ImageFrame::empty()"), TRUE),
       DocumentInputType_value("Insertion", TaggedValue("ImageFrame", "ImageFrame::empty()"), TRUE),
       DocumentInputType_value("Replace", TaggedValue("RedGreenBlue", "RedGreenBlue::Red"), FALSE)>>,
     outputs |-> <<DocumentOutputType_new("Image", "Raster")>>,
     primary_output |-> FALSE,
     properties |-> "node_properties::insert_channel_properties"],
    \* Combine Channels (lines 574-590)
    [name |-> <<"C","o","m","b","i","n","e"," ","C","h","a","n","n","e","l","s">>,
     category |-> <<"I","m","a","g","e"," ","A","d","j","u","s","t","m","e","n","t","s">>,
     feature |-> "",
     identifier |-> [kind |-> "ProtoNode", ident |-> "graphene_std::raster::CombineChannelsNode"],
     inputs |-> <<
       DocumentInputType_value("None", TaggedValue("None", ""), FALSE),
       DocumentInputType_value("Red", TaggedValue("ImageFrame", "ImageFrame::empty()"), TRUE),
       DocumentInputType_value("Green", TaggedValue("ImageFrame", "ImageFrame::empty()"), TRUE),
       DocumentInputType_value("Blue", TaggedValue("ImageFrame", "ImageFrame::empty()"), TRUE),
       DocumentInputType_value("Alpha", TaggedValue("ImageFrame", "ImageFrame::empty()"), TRUE)>>,
     outputs |-> <<DocumentOutputType_new("Image", "Raster")>>,
     primary_output |-> FALSE,
     properties |-> "node_properties::no_properties"],
    \* Blend (lines 591-604)
    [name |-> <<"B","l","e","n","d">>,
     category |-> <<"I","m","a","g","e"," ","A","d","j","u","s","t","m","e","n","t","s">>,
     feature |-> "",
     identifier |-> [kind |-> "ProtoNode", ident |-> "graphene_core::raster::BlendNode<_, _, _, _>"],
     inputs |-> <<
       DocumentInputType_value("Image", TaggedValue("ImageFrame", "ImageFrame::empty()"), TRUE),
       DocumentInputType_value("Second", TaggedValue("ImageFrame", "ImageFrame::empty()"), TRUE),
       DocumentInputType_value("BlendMode", TaggedValue("BlendMode", "BlendMode::Normal"), FALSE),
       DocumentInputType_value("Opacity", TaggedValue("F32", "100."), FALSE)>>,
     outputs |-> <<DocumentOutputType_new("Image", "Raster")>>,
     primary_output |-> FALSE,
     properties |-> "node_properties::blend_properties"],
    \* Levels (lines 605-644)
    [name |-> <<"L","e","v","e","l","s">>,
     category |-> <<"I","m","a","g","e"," ","A","d","j","u","s","t","m","e","n","t","s">>,
     feature |-> "",
     identifier |-> [kind |-> "ProtoNode", ident |-> "graphene_core::raster::LevelsNode<_, _, _, _, _>"],
     inputs |-> <<
       DocumentInputType_new("Image", "Raster", NodeInput_value(TaggedValue("ImageFrame", "ImageFrame::empty()"), TRUE)),
       DocumentInputType_new("Shadows", "Number", NodeInput_value(TaggedValue("F32", "0."), FALSE)),
       DocumentInputType_new("Midtones", "Number", NodeInput_value(TaggedValue("F32", "50."), FALSE)),
       DocumentInputType_new("Highlights", "Number", NodeInput_value(TaggedValue("F32", "100."), FALSE)),
       DocumentInputType_new("Output Minimums", "Number", NodeInput_value(TaggedValue("F32", "0."), FALSE)),
       DocumentInputType_new("Output Maximums", "Number", NodeInput_value(TaggedValue("F32", "100."), FALSE))>>,
     outputs |-> <<DocumentOutputType_new("Image", "Raster")>>,
     primary_output |-> FALSE,
     properties |-> "node_properties::levels_properties"],
    \* Grayscale (lines 645-694)
    [name |-> <<"G","r","a","y","s","c","a","l","e">>,
     category |-> <<"I","m","a","g","e"," ","A","d","j","u","s","t","m","e","n","t","s">>,
     feature |-> "",
     identifier |-> [kind |-> "ProtoNode", ident |-> "graphene_core::raster::GrayscaleNode<_, _, _, _, _, _, _>"],
     inputs |-> <<
       DocumentInputType_new("Image", "Raster", NodeInput_value(TaggedValue("ImageFrame", "ImageFrame::empty()"), TRUE)),
       DocumentInputType_new("Tint", "Number", NodeInput_value(TaggedValue("Color", "Color::BLACK"), FALSE)),
       DocumentInputType_new("Reds", "Number", NodeInput_value(TaggedValue("F32", "40."), FALSE)),
       DocumentInputType_new("Yellows", "Number", NodeInput_value(TaggedValue("F32", "60."), FALSE)),
       DocumentInputType_new("Greens", "Number", NodeInput_value(TaggedValue("F32", "40."), FALSE)),
       DocumentInputType_new("Cyans", "Number", NodeInput_value(TaggedValue("F32", "60."), FALSE)),
       DocumentInputType_new("Blues", "Number", NodeInput_value(TaggedValue("F32", "20."), FALSE)),
       DocumentInputType_new("Magentas", "Number", NodeInput_value(TaggedValue("F32", "80."), FALSE))>>,
     outputs |-> <<DocumentOutputType_new("Image", "Raster")>>,
     primary_output |-> FALSE,
     properties |-> "node_properties::grayscale_properties"],
    \* Color Channel (lines 695-703)
    [name |-> <<"C","o","l","o","r"," ","C","h","a","n","n","e","l">>,
     category |-> <<"I","m","a","g","e"," ","A","d","j","u","s","t","m","e","n","t","s">>,
     feature |-> "",
     identifier |-> [kind |-> "ProtoNode", ident |-> "graphene_core::ops::IdNode"],
     inputs |-> <<
       DocumentInputType_value("Channel", TaggedValue("RedGreenBlue", "RedGreenBlue::Red"), FALSE)>>,
     outputs |-> <<DocumentOutputType_new("Out", "General")>>,
     primary_output |-> FALSE,
     properties |-> "node_properties::color_channel_properties"],
    \* Blend Mode (lines 704-712)
    [name |-> <<"B","l","e","n","d"," ","M","o","d","e">>,
     category |-> <<"I","m","a","g","e"," ","A","d","j","u","s","t","m","e","n","t","s">>,
     feature |-> "",
     identifier |-> [kind |-> "ProtoNode", ident |-> "graphene_core::ops::IdNode"],
     inputs |-> <<
       DocumentInputType_value("Mode", TaggedValue("BlendMode", "BlendMode::Normal"), FALSE)>>,
     outputs |-> <<DocumentOutputType_new("Out", "General")>>,
     primary_output |-> FALSE,
     properties |-> "node_properties::blend_mode_properties"],
    \* Luminance (lines 713-724)
    [name |-> <<"L","u","m","i","n","a","n","c","e">>,
     category |-> <<"I","m","a","g","e"," ","A","d","j","u","s","t","m","e","n","t","s">>,
     feature |-> "",
     identifier |-> [kind |-> "ProtoNode", ident |-> "graphene_core::raster::LuminanceNode<_>"],
     inputs |-> <<
       DocumentInputType_value("Image", TaggedValue("ImageFrame", "ImageFrame::empty()"), TRUE),
       DocumentInputType_value("Luminance Calc", TaggedValue("LuminanceCalculation", "LuminanceCalculation::SRGB"), FALSE)>>,
     outputs |-> <<DocumentOutputType_new("Image", "Raster")>>,
     primary_output |-> FALSE,
     properties |-> "node_properties::luminance_properties"],
    \* Extract Channel (lines 725-736)
    [name |-> <<"E","x","t","r","a","c","t"," ","C","h","a","n","n","e","l">>,
     category |-> <<"I","m","a","g","e"," ","A","d","j","u","s","t","m","e","n","t","s">>,
     feature |-> "",
     identifier |-> [kind |-> "ProtoNode", ident |-> "graphene_core::raster::ExtractChannelNode<_>"],
     inputs |-> <<
       DocumentInputType_value("Image", TaggedValue("ImageFrame", "ImageFrame::empty()"), TRUE),
       DocumentInputType_value("From", TaggedValue("RedGreenBlue", "RedGreenBlue::Red"), FALSE)>>,
     outputs |-> <<DocumentOutputType_new("Image", "Raster")>>,
     primary_output |-> FALSE,
     properties |-> "node_properties::extract_channel_properties"],
    \* Extract Alpha (lines 737-744)
    [name |-> <<"E","x","t","r","a","c","t"," ","A","l","p","h","a">>,
     category |-> <<"I","m","a","g","e"," ","A","d","j","u","s","t","m","e","n","t","s">>,
     feature |-> "",
     identifier |-> [kind |-> "ProtoNode", ident |-> "graphene_core::raster::ExtractAlphaNode<>"],
     inputs |-> <<
       DocumentInputType_value("Image", TaggedValue("ImageFrame", "ImageFrame::empty()"), TRUE)>>,
     outputs |-> <<DocumentOutputType_new("Image", "Raster")>>,
     primary_output |-> FALSE,
     properties |-> "node_properties::no_properties"],
    \* Extract Opaque (lines 745-752)
    [name |-> <<"E","x","t","r","a","c","t"," ","O","p","a","q","u","e">>,
     category |-> <<"I","m","a","g","e"," ","A","d","j","u","s","t","m","e","n","t","s">>,
     feature |-> "",
     identifier |-> [kind |-> "ProtoNode", ident |-> "graphene_core::raster::ExtractOpaqueNode<>"],
     inputs |-> <<
       DocumentInputType_value("Image", TaggedValue("ImageFrame", "ImageFrame::empty()"), TRUE)>>,
     outputs |-> <<DocumentOutputType_new("Image", "Raster")>>,
     primary_output |-> FALSE,
     properties |-> "node_properties::no_properties"],
    \* Split Channels (lines 753-814)
    [name |-> <<"S","p","l","i","t"," ","C","h","a","n","n","e","l","s">>,
     category |-> <<"I","m","a","g","e"," ","A","d","j","u","s","t","m","e","n","t","s">>,
     feature |-> "",
     identifier |-> [kind |-> "DocumentNode", network |->
        [inputs |-> <<0>>,
         outputs |-> <<NodeOutput_new(4, 0), NodeOutput_new(1, 0), NodeOutput_new(2, 0), NodeOutput_new(3, 0), NodeOutput_new(4, 0)>>,
         nodes |-> (
          (0 :> DocumentNode(<<"I","d","e","n","t","i","t","y">>,
              <<NodeInput_Network("concrete!(ImageFrame<Color>)")>>,
              Unresolved("graphene_core::ops::IdNode"), DefaultMetadata))
          @@ (1 :> DocumentNode(<<"R","e","d","N","o","d","e">>,
              <<NodeInput_node(0, 0), NodeInput_value(TaggedValue("RedGreenBlue", "RedGreenBlue::Red"), FALSE)>>,
              Unresolved("graphene_core::raster::ExtractChannelNode<_>"), DefaultMetadata))
          @@ (2 :> DocumentNode(<<"G","r","e","e","n","N","o","d","e">>,
              <<NodeInput_node(0, 0), NodeInput_value(TaggedValue("RedGreenBlue", "RedGreenBlue::Green"), FALSE)>>,
              Unresolved("graphene_core::raster::ExtractChannelNode<_>"), DefaultMetadata))
          @@ (3 :> DocumentNode(<<"B","l","u","e","N","o","d","e">>,
              <<NodeInput_node(0, 0), NodeInput_value(TaggedValue("RedGreenBlue", "RedGreenBlue::Blue"), FALSE)>>,
              Unresolved("graphene_core::raster::ExtractChannelNode<_>"), DefaultMetadata))
          @@ (4 :> DocumentNode(<<"A","l","p","h","a","N","o","d","e">>,
              <<NodeInput_node(0, 0)>>,
              Unresolved("graphene_core::raster::ExtractAlphaNode<>"), DefaultMetadata))
          @@ (5 :> DocumentNode(<<"E","m","p","t","y","O","u","t","p","u","t">>,
              <<NodeInput_value(TaggedValue("ImageFrame", "ImageFrame::empty()"), FALSE)>>,
              Unresolved("graphene_core::ops::IdNode"), DefaultMetadata)))]],
     inputs |-> <<
       DocumentInputType_value("Image", TaggedValue("ImageFrame", "ImageFrame::empty()"), TRUE)>>,
     outputs |-> <<DocumentOutputType_new("Empty", "Raster"), DocumentOutputType_new("Red", "Raster"), DocumentOutputType_new("Green", "Raster"), DocumentOutputType_new("Blue", "Raster"), DocumentOutputType_new("Alpha", "Raster")>>,
     primary_output |-> FALSE,
     properties |-> "node_properties::no_properties"],
    \* Brush (lines 815-830)
    [name |-> <<"B","r","u","s","h">>,
     category |-> <<"B","r","u","s","h">>,
     feature |-> "",
     identifier |-> [kind |-> "ProtoNode", ident |-> "graphene_std::brush::BrushNode<_, _, _>"],
     inputs |-> <<
       DocumentInputType_value("Background", TaggedValue("ImageFrame", "ImageFrame::empty()"), TRUE),
       DocumentInputType_value("Bounds", TaggedValue("ImageFrame", "ImageFrame::empty()"), TRUE),
       DocumentInputType_value("Trace", TaggedValue("BrushStrokes", "Vec::new()"), FALSE),
       DocumentInputType_value("Cache", TaggedValue("BrushCache", "BrushCache::new_proto()"), FALSE)>>,
     outputs |-> <<DocumentOutputType_new("Image", "Raster")>>,
     primary_output |-> FALSE,
     properties |-> "node_properties::no_properties"],
    \* Extract Vector Points (lines 831-841)
    [name |-> <<"E","x","t","r","a","c","t"," ","V","e","c","t","o","r"," ","P","o","i","n","t","s">>,
     category |-> <<"B","r","u","s","h">>,
     feature |-> "",
     identifier |-> [kind |-> "ProtoNode", ident |-> "graphene_std::brush::VectorPointsNode"],
     inputs |-> <<
       DocumentInputType_value("VectorData", TaggedValue("VectorData", "VectorData::empty()"), TRUE)>>,
     outputs |-> <<DocumentOutputType_new("Vector Points", "General")>>,
     primary_output |-> FALSE,
     properties |-> "node_properties::no_properties"],
    \* Memoize (lines 842-852)
    [name |-> <<"M","e","m","o","i","z","e">>,
     category |-> <<"S","t","r","u","c","t","u","r","a","l">>,
     feature |-> "",
     identifier |-> [kind |-> "ProtoNode", ident |-> "graphene_core::memo::MemoNode<_, _>"],
     inputs |-> <<
       DocumentInputType_value("ShortCircut", TaggedValue("None", ""), FALSE),
       DocumentInputType_value("Image", TaggedValue("ImageFrame", "ImageFrame::empty()"), TRUE)>>,
     outputs |-> <<DocumentOutputType_new("Image", "Raster")>>,
     primary_output |-> FALSE,
     properties |-> "node_properties::no_properties"],
    \* Image (lines 853-861)
    [name |-> <<"I","m","a","g","e">>,
     category |-> <<"I","g","n","o","r","e">>,
     feature |-> "",
     identifier |-> [kind |-> "ProtoNode", ident |-> "graphene_core::ops::IdNode"],
     inputs |-> <<
       DocumentInputType_value("Image", TaggedValue("ImageFrame", "ImageFrame::empty()"), FALSE)>>,
     outputs |-> <<DocumentOutputType_new("Image", "Raster")>>,
     primary_output |-> FALSE,
     properties |-> "|_document_node, _node_id, _context| node_properties::string_properties(\"A bitmap image embedded in this node\")"],
    \* Ref (lines 862-869)
    [name |-> <<"R","e","f">>,
     category |-> <<"S","t","r","u","c","t","u","r","a","l">>,
     feature |-> "",
     identifier |-> [kind |-> "ProtoNode", ident |-> "graphene_core::memo::MemoNode<_, _>"],
     inputs |-> <<
       DocumentInputType_value("Image", TaggedValue("ImageFrame", "ImageFrame::empty()"), TRUE)>>,
     outputs |-> <<DocumentOutputType_new("Image", "Raster")>>,
     primary_output |-> FALSE,
     properties |-> "node_properties::no_properties"],
    \* Uniform (lines 871-920)
    [name |-> <<"U","n","i","f","o","r","m">>,
     category |-> <<"G","p","u">>,
     feature |-> "gpu",
     identifier |-> [kind |-> "DocumentNode", network |->
        [inputs |-> <<1, 0>>,
         outputs |-> <<NodeOutput_new(2, 0)>>,
         nodes |-> (
          (0 :> DocumentNode(<<"E","x","t","r","a","c","t"," ","E","x","e","c","u","t","o","r">>,
              <<NodeInput_Network("concrete!(WasmEditorApi)")>>,
              Unresolved("graphene_core::ops::IntoNode<_, &WgpuExecutor>"), DefaultMetadata))
          @@ (1 :> DocumentNode(<<"C","r","e","a","t","e"," ","U","n","i","f","o","r","m">>,
              <<NodeInput_Network("generic!(T)"), NodeInput_node(0, 0)>>,
              Unresolved("gpu_executor::UniformNode<_>"), DefaultMetadata))
          @@ (2 :> DocumentNode(<<"C","a","c","h","e">>,
              <<NodeInput_ShortCircut("concrete!(())"), NodeInput_node(1, 0)>>,
              Unresolved("graphene_core::memo::MemoNode<_, _>"), DefaultMetadata)))]],
     inputs |-> <<
       DocumentInputType_new("In", "General", NodeInput_value(TaggedValue("F32", "0."), TRUE)),
       DocumentInputType_new("In", "General", NodeInput_Network("concrete!(WasmEditorApi)"))>>,
     outputs |-> <<DocumentOutputType_new("Uniform", "General")>>,
     primary_output |-> FALSE,
     properties |-> "node_properties::no_properties"],
    \* Storage (lines 922-971)
    [name |-> <<"S","t","o","r","a","g","e">>,
     category |-> <<"G","p","u">>,
     feature |-> "gpu",
     identifier |-> [kind |-> "DocumentNode", network |->
        [inputs |-> <<1, 0>>,
         outputs |-> <<NodeOutput_new(2, 0)>>,
         nodes |-> (
          (0 :> DocumentNode(<<"E","x","t","r","a","c","t"," ","E","x","e","c","u","t","o","r">>,
              <<NodeInput_Network("concrete!(WasmEditorApi)")>>,
              Unresolved("graphene_core::ops::IntoNode<_, &WgpuExecutor>"), DefaultMetadata))
          @@ (1 :> DocumentNode(<<"C","r","e","a","t","e"," ","S","t","o","r","a","g","e">>,
              <<NodeInput_Network("concrete!(Vec<u8>)"), NodeInput_node(0, 0)>>,
              Unresolved("gpu_executor::StorageNode<_>"), DefaultMetadata))
          @@ (2 :> DocumentNode(<<"C","a","c","h","e">>,
              <<NodeInput_ShortCircut("concrete!(())"), NodeInput_node(1, 0)>>,
              Unresolved("graphene_core::memo::MemoNode<_, _>"), DefaultMetadata)))]],
     inputs |-> <<
       DocumentInputType_new("In", "General", NodeInput_value(TaggedValue("None", ""), TRUE)),
       DocumentInputType_new("In", "General", NodeInput_Network("concrete!(WasmEditorApi)"))>>,
     outputs |-> <<DocumentOutputType_new("Storage", "General")>>,
     primary_output |-> FALSE,
     properties |-> "node_properties::no_properties"],
    \* CreateOutputBuffer (lines 973-1028)
    [name |-> <<"C","r","e","a","t","e","O","u","t","p","u","t","B","u","f","f","e","r">>,
     category |-> <<"G","p","u">>,
     feature |-> "gpu",
     identifier |-> [kind |-> "DocumentNode", network |->
        [inputs |-> <<1, 1, 0>>,
         outputs |-> <<NodeOutput_new(2, 0)>>,
         nodes |-> (
          (0 :> DocumentNode(<<"E","x","t","r","a","c","t"," ","E","x","e","c","u","t","o","r">>,
              <<NodeInput_Network("concrete!(WasmEditorApi)")>>,
              Unresolved("graphene_core::ops::IntoNode<_, &WgpuExecutor>"), DefaultMetadata))
          @@ (1 :> DocumentNode(<<"C","r","e","a","t","e"," ","O","u","t","p","u","t"," ","B","u","f","f","e","r">>,
              <<NodeInput_Network("concrete!(usize)"), NodeInput_node(0, 0), NodeInput_Network("concrete!(Type)")>>,
              Unresolved("gpu_executor::CreateOutputBufferNode<_, _>"), DefaultMetadata))
          @@ (2 :> DocumentNode(<<"C","a","c","h","e">>,
              <<NodeInput_ShortCircut("concrete!(())"), NodeInput_node(1, 0)>>,
              Unresolved("graphene_core::memo::MemoNode<_, _>"), DefaultMetadata)))]],
     inputs |-> <<
       DocumentInputType_new("In", "General", NodeInput_value(TaggedValue("None", ""), TRUE)),
       DocumentInputType_new("In", "General", NodeInput_Network("concrete!(WasmEditorApi)")),
       DocumentInputType_new("In", "General", NodeInput_value(TaggedValue("None", ""), TRUE))>>,
     outputs |-> <<DocumentOutputType_new("OutputBuffer", "General")>>,
     primary_output |-> FALSE,
     properties |-> "node_properties::input_properties"],
    \* CreateComputePass (lines 1030-1095)
    [name |-> <<"C","r","e","a","t","e","C","o","m","p","u","t","e","P","a","s","s">>,
     category |-> <<"G","p","u">>,
     feature |-> "gpu",
     identifier |-> [kind |-> "DocumentNode", network |->
        [inputs |-> <<1, 0, 1, 1>>,
         outputs |-> <<NodeOutput_new(2, 0)>>,
         nodes |-> (
          (0 :> DocumentNode(<<"E","x","t","r","a","c","t"," ","E","x","e","c","u","t","o","r">>,
              <<NodeInput_Network("concrete!(WasmEditorApi)")>>,
              Unresolved("graphene_core::ops::IntoNode<_, &WgpuExecutor>"), DefaultMetadata))
          @@ (1 :> DocumentNode(<<"C","r","e","a","t","e"," ","C","o","m","p","u","t","e"," ","P","a","s","s">>,
              <<NodeInput_Network("concrete!(gpu_executor::PipelineLayout<WgpuExecutor>)"), NodeInput_node(0, 0), NodeInput_Network("concrete!(ShaderInput<WgpuExecutor>)"), NodeInput_Network("concrete!(gpu_executor::ComputePassDimensions)")>>,
              Unresolved("gpu_executor::CreateComputePassNode<_, _, _>"), DefaultMetadata))
          @@ (2 :> DocumentNode(<<"C","a","c","h","e">>,
              <<NodeInput_ShortCircut("concrete!(())"), NodeInput_node(1, 0)>>,
              Unresolved("graphene_core::memo::MemoNode<_, _>"), DefaultMetadata)))]],
     inputs |-> <<
       DocumentInputType_new("In", "General", NodeInput_Network("concrete!(gpu_executor::PipelineLayout<WgpuExecutor>)")),
       DocumentInputType_new("In", "General", NodeInput_Network("concrete!(WasmEditorApi)")),
       DocumentInputType_new("In", "General", NodeInput_Network("concrete!(ShaderInput<WgpuExecutor>)")),
       DocumentInputType_new("In", "General", NodeInput_Network("concrete!(gpu_executor::ComputePassDimensions)"))>>,
     outputs |-> <<DocumentOutputType_new("CommandBuffer", "General")>>,
     primary_output |-> FALSE,
     properties |-> "node_properties::input_properties"],
    \* CreatePipelineLayout (lines 1097-1129)
    [name |-> <<"C","r","e","a","t","e","P","i","p","e","l","i","n","e","L","a","y","o","u","t">>,
     category |-> <<"G","p","u">>,
     feature |-> "gpu",
     identifier |-> [kind |-> "ProtoNode", ident |-> "gpu_executor::CreatePipelineLayoutNode<_, _, _, _>"],
     inputs |-> <<
       DocumentInputType_new("ShaderHandle", "General", NodeInput_Network("concrete!(<WgpuExecutor as GpuExecutor>::ShaderHandle)")),
       DocumentInputType_new("String", "General", NodeInput_Network("concrete!(String)")),
       DocumentInputType_new("Bindgroup", "General", NodeInput_Network("concrete!(gpu_executor::Bindgroup<WgpuExecutor>)")),
       DocumentInputType_new("ArcShaderInput", "General", NodeInput_Network("concrete!(Arc<ShaderInput<WgpuExecutor>>)"))>>,
     outputs |-> <<DocumentOutputType_new("PipelineLayout", "General")>>,
     primary_output |-> FALSE,
     properties |-> "node_properties::input_properties"],
    \* ExecuteComputePipeline (lines 1131-1180)
    [name |-> <<"E","x","e","c","u","t","e","C","o","m","p","u","t","e","P","i","p","e","l","i","n","e">>,
     category |-> <<"G","p","u">>,
     feature |-> "gpu",
     identifier |-> [kind |-> "DocumentNode", network |->
        [inputs |-> <<1, 0>>,
         outputs |-> <<NodeOutput_new(2, 0)>>,
         nodes |-> (
          (0 :> DocumentNode(<<"E","x","t","r","a","c","t"," ","E","x","e","c","u","t","o","r">>,
              <<NodeInput_Network("concrete!(WasmEditorApi)")>>,
              Unresolved("graphene_core::ops::IntoNode<_, &WgpuExecutor>"), DefaultMetadata))
          @@ (1 :> DocumentNode(<<"E","x","e","c","u","t","e"," ","C","o","m","p","u","t","e"," ","P","i","p","e","l","i","n","e">>,
              <<NodeInput_Network("concrete!(<WgpuExecutor as GpuExecutor>::CommandBuffer)"), NodeInput_node(0, 0)>>,
              Unresolved("gpu_executor::ExecuteComputePipelineNode<_>"), DefaultMetadata))
          @@ (2 :> DocumentNode(<<"C","a","c","h","e">>,
              <<NodeInput_ShortCircut("concrete!(())"), NodeInput_node(1, 0)>>,
              Unresolved("graphene_core::memo::MemoNode<_, _>"), DefaultMetadata)))]],
     inputs |-> <<
       DocumentInputType_new("In", "General", NodeInput_value(TaggedValue("None", ""), TRUE)),
       DocumentInputType_new("In", "General", NodeInput_Network("concrete!(WasmEditorApi)"))>>,
     outputs |-> <<DocumentOutputType_new("PipelineResult", "General")>>,
     primary_output |-> FALSE,
     properties |-> "node_properties::no_properties"],
    \* ReadOutputBuffer (lines 1182-1231)
    [name |-> <<"R","e","a","d","O","u","t","p","u","t","B","u","f","f","e","r">>,
     category |-> <<"G","p","u">>,
     feature |-> "gpu",
     identifier |-> [kind |-> "DocumentNode", network |->
        [inputs |-> <<1, 0>>,
         outputs |-> <<NodeOutput_new(2, 0)>>,
         nodes |-> (
          (0 :> DocumentNode(<<"E","x","t","r","a","c","t"," ","E","x","e","c","u","t","o","r">>,
              <<NodeInput_Network("concrete!(WasmEditorApi)")>>,
              Unresolved("graphene_core::ops::IntoNode<_, &WgpuExecutor>"), DefaultMetadata))
          @@ (1 :> DocumentNode(<<"R","e","a","d"," ","O","u","t","p","u","t"," ","B","u","f","f","e","r">>,
              <<NodeInput_Network("concrete!(Arc<ShaderInput<WgpuExecutor>>)"), NodeInput_node(0, 0)>>,
              Unresolved("gpu_executor::ReadOutputBufferNode<_, _>"), DefaultMetadata))
          @@ (2 :> DocumentNode(<<"C","a","c","h","e">>,
              <<NodeInput_ShortCircut("concrete!(())"), NodeInput_node(1, 0)>>,
              Unresolved("graphene_core::memo::MemoNode<_, _>"), DefaultMetadata)))]],
     inputs |-> <<
       DocumentInputType_new("In", "General", NodeInput_value(TaggedValue("None", ""), TRUE)),
       DocumentInputType_new("In", "General", NodeInput_Network("concrete!(WasmEditorApi)"))>>,
     outputs |-> <<DocumentOutputType_new("Buffer", "General")>>,
     primary_output |-> FALSE,
     properties |-> "node_properties::no_properties"],
    \* CreateGpuSurface (lines 1233-1269)
    [name |-> <<"C","r","e","a","t","e","G","p","u","S","u","r","f","a","c","e">>,
     category |-> <<"G","p","u">>,
     feature |-> "gpu",
     identifier |-> [kind |-> "DocumentNode", network |->
        [inputs |-> <<0>>,
         outputs |-> <<NodeOutput_new(1, 0)>>,
         nodes |-> (
          (0 :> DocumentNode(<<"C","r","e","a","t","e"," ","G","p","u"," ","S","u","r","f","a","c","e">>,
              <<NodeInput_Network("concrete!(WasmEditorApi)")>>,
              Unresolved("gpu_executor::CreateGpuSurfaceNode"), DefaultMetadata))
          @@ (1 :> DocumentNode(<<"C","a","c","h","e">>,
              <<NodeInput_ShortCircut("concrete!(())"), NodeInput_node(0, 0)>>,
              Unresolved("graphene_core::memo::MemoNode<_, _>"), DefaultMetadata)))]],
     inputs |-> <<
       DocumentInputType_new("In", "General", NodeInput_Network("concrete!(WasmEditorApi)"))>>,
     outputs |-> <<DocumentOutputType_new("GpuSurface", "General")>>,
     primary_output |-> FALSE,
     properties |-> "node_properties::no_properties"],
    \* RenderTexture (lines 1271-1323)
    [name |-> <<"R","e","n","d","e","r","T","e","x","t","u","r","e">>,
     category |-> <<"G","p","u">>,
     feature |-> "gpu",
     identifier |-> [kind |-> "DocumentNode", network |->
        [inputs |-> <<1, 1, 0>>,
         outputs |-> <<NodeOutput_new(1, 0)>>,
         nodes |-> (
          (0 :> DocumentNode(<<"E","x","t","r","a","c","t"," ","E","x","e","c","u","t","o","r">>,
              <<NodeInput_Network("concrete!(WasmEditorApi)")>>,
              Unresolved("graphene_core::ops::IntoNode<_, &WgpuExecutor>"), DefaultMetadata))
          @@ (1 :> DocumentNode(<<"R","e","n","d","e","r"," ","T","e","x","t","u","r","e">>,
              <<NodeInput_Network("concrete!(ShaderInputFrame<WgpuExecutor>)"), NodeInput_Network("concrete!(Arc<SurfaceHandle<<WgpuExecutor as GpuExecutor>::Surface>>)"), NodeInput_node(0, 0)>>,
              Unresolved("gpu_executor::RenderTextureNode<_, _>"), DefaultMetadata)))]],
     inputs |-> <<
       DocumentInputType_new("Texture", "General", NodeInput_value(TaggedValue("None", ""), TRUE)),
       DocumentInputType_new("Surface", "General", NodeInput_value(TaggedValue("None", ""), TRUE)),
       DocumentInputType_new("EditorApi", "General", NodeInput_Network("concrete!(WasmEditorApi)"))>>,
     outputs |-> <<DocumentOutputType_new("RenderedTexture", "General")>>,
     primary_output |-> FALSE,
     properties |-> "node_properties::no_properties"],
    \* UploadTexture (lines 1325-1374)
    [name |-> <<"U","p","l","o","a","d","T","e","x","t","u","r","e">>,
     category |-> <<"G","p","u">>,
     feature |-> "gpu",
     identifier |-> [kind |-> "DocumentNode", network |->
        [inputs |-> <<1, 0>>,
         outputs |-> <<NodeOutput_new(2, 0)>>,
         nodes |-> (
          (0 :> DocumentNode(<<"E","x","t","r","a","c","t"," ","E","x","e","c","u","t","o","r">>,
              <<NodeInput_Network("concrete!(WasmEditorApi)")>>,
              Unresolved("graphene_core::ops::IntoNode<_, &WgpuExecutor>"), DefaultMetadata))
          @@ (1 :> DocumentNode(<<"U","p","l","o","a","d"," ","T","e","x","t","u","r","e">>,
              <<NodeInput_Network("concrete!(ImageFrame<Color>)"), NodeInput_node(0, 0)>>,
              Unresolved("gpu_executor::UploadTextureNode<_>"), DefaultMetadata))
          @@ (2 :> DocumentNode(<<"C","a","c","h","e">>,
              <<NodeInput_ShortCircut("concrete!(())"), NodeInput_node(1, 0)>>,
              Unresolved("graphene_core::memo::MemoNode<_, _>"), DefaultMetadata)))]],
     inputs |-> <<
       DocumentInputType_new("In", "General", NodeInput_value(TaggedValue("ImageFrame", "ImageFrame::empty()"), TRUE)),
       DocumentInputType_new("In", "General", NodeInput_Network("concrete!(WasmEditorApi)"))>>,
     outputs |-> <<DocumentOutputType_new("Texture", "General")>>,
     primary_output |-> FALSE,
     properties |-> "node_properties::no_properties"],
    \* GpuImage (lines 1376-1395)
    [name |-> <<"G","p","u","I","m","a","g","e">>,
     category |-> <<"I","m","a","g","e"," ","A","d","j","u","s","t","m","e","n","t","s">>,
     feature |-> "gpu",
     identifier |-> [kind |-> "ProtoNode", ident |-> "graphene_std::executor::MapGpuSingleImageNode<_>"],
     inputs |-> <<
       DocumentInputType_value("Image", TaggedValue("ImageFrame", "ImageFrame::empty()"), TRUE),
       DocumentInputType_new("Node", "General", NodeInput_value(TaggedValue("DocumentNode", "DocumentNode::default()"), TRUE)),
       DocumentInputType_new("In", "General", NodeInput_Network("concrete!(WasmEditorApi)"))>>,
     outputs |-> <<DocumentOutputType_new("Image", "Raster")>>,
     primary_output |-> FALSE,
     properties |-> "node_properties::no_properties"],
    \* Blend (GPU) (lines 1397-1410)
    [name |-> <<"B","l","e","n","d"," ","(","G","P","U",")">>,
     category |-> <<"I","m","a","g","e"," ","A","d","j","u","s","t","m","e","n","t","s">>,
     feature |-> "gpu",
     identifier |-> [kind |-> "ProtoNode", ident |-> "graphene_std::executor::BlendGpuImageNode<_, _, _>"],
     inputs |-> <<
       DocumentInputType_value("Image", TaggedValue("ImageFrame", "ImageFrame::empty()"), TRUE),
       DocumentInputType_value("Second", TaggedValue("ImageFrame", "ImageFrame::empty()"), TRUE),
       DocumentInputType_value("Blend Mode", TaggedValue("BlendMode", "BlendMode::Normal"), FALSE),
       DocumentInputType_value("Opacity", TaggedValue("F32", "100.0"), FALSE)>>,
     outputs |-> <<DocumentOutputType_new("Image", "Raster")>>,
     primary_output |-> FALSE,
     properties |-> "node_properties::blend_properties"],
    \* Extract (lines 1411-1422)
    [name |-> <<"E","x","t","r","a","c","t">>,
     category |-> <<"M","a","c","r","o","s">>,
     feature |-> "",
     identifier |-> [kind |-> "Extract"],
     inputs |-> <<
       DocumentInputType_new("Node", "General", NodeInput_value(TaggedValue("DocumentNode", "DocumentNode::default()"), TRUE))>>,
     outputs |-> <<DocumentOutputType_new("DocumentNode", "General")>>,
     primary_output |-> FALSE,
     properties |-> "node_properties::no_properties"],
    \* Generate Quantization (lines 1424-1448)
    [name |-> <<"G","e","n","e","r","a","t","e"," ","Q","u","a","n","t","i","z","a","t","i","o","n">>,
     category |-> <<"Q","u","a","n","t","i","z","a","t","i","o","n">>,
     feature |-> "quantization",
     identifier |-> [kind |-> "ProtoNode", ident |-> "graphene_std::quantization::GenerateQuantizationNode<_, _>"],
     inputs |-> <<
       DocumentInputType_new("Image", "Raster", NodeInput_value(TaggedValue("ImageFrame", "ImageFrame::empty()"), TRUE)),
       DocumentInputType_new("samples", "Number", NodeInput_value(TaggedValue("U32", "100"), FALSE)),
       DocumentInputType_new("Fn index", "Number", NodeInput_value(TaggedValue("U32", "0"), FALSE))>>,
     outputs |-> <<DocumentOutputType_new("Quantization", "General")>>,
     primary_output |-> FALSE,
     properties |-> "node_properties::quantize_properties"],
    \* Quantize Image (lines 1450-1469)
    [name |-> <<"Q","u","a","n","t","i","z","e"," ","I","m","a","g","e">>,
     category |-> <<"Q","u","a","n","t","i","z","a","t","i","o","n">>,
     feature |-> "quantization",
     identifier |-> [kind |-> "ProtoNode", ident |-> "graphene_core::quantization::QuantizeNode<_>"],
     inputs |-> <<
       DocumentInputType_new("Image", "Raster", NodeInput_value(TaggedValue("ImageFrame", "ImageFrame::empty()"), TRUE)),
       DocumentInputType_new("Quantization", "General", NodeInput_value(TaggedValue("Quantization", "core::array::from_fn(|_| Default::default())"), TRUE))>>,
     outputs |-> <<DocumentOutputType_new("Encoded", "Raster")>>,
     primary_output |-> FALSE,
     properties |-> "node_properties::quantize_properties"],
    \* DeQuantize Image (lines 1471-1490)
    [name |-> <<"D","e","Q","u","a","n","t","i","z","e"," ","I","m","a","g","e">>,
     category |-> <<"Q","u","a","n","t","i","z","a","t","i","o","n">>,
     feature |-> "quantization",
     identifier |-> [kind |-> "ProtoNode", ident |-> "graphene_core::quantization::DeQuantizeNode<_>"],
     inputs |-> <<
       DocumentInputType_new("Encoded", "Raster", NodeInput_value(TaggedValue("ImageFrame", "ImageFrame::empty()"), TRUE)),
       DocumentInputType_new("Quantization", "General", NodeInput_value(TaggedValue("Quantization", "core::array::from_fn(|_| Default::default())"), TRUE))>>,
     outputs |-> <<DocumentOutputType_new("Decoded", "Raster")>>,
     primary_output |-> FALSE,
     properties |-> "node_properties::quantize_properties"],
    \* Invert RGB (lines 1491-1498)
    [name |-> <<"I","n","v","e","r","t"," ","R","G","B">>,
     category |-> <<"I","m","a","g","e"," ","A","d","j","u","s","t","m","e","n","t","s">>,
     feature |-> "",
     identifier |-> [kind |-> "ProtoNode", ident |-> "graphene_core::raster::InvertRGBNode"],
     inputs |-> <<
       DocumentInputType_value("Image", TaggedValue("ImageFrame", "ImageFrame::empty()"), TRUE)>>,
     outputs |-> <<DocumentOutputType_new("Image", "Raster")>>,
     primary_output |-> FALSE,
     properties |-> "node_properties::no_properties"],
    \* Hue/Saturation (lines 1499-1512)
    [name |-> <<"H","u","e","/","S","a","t","u","r","a","t","i","o","n">>,
     category |-> <<"I","m","a","g","e"," ","A","d","j","u","s","t","m","e","n","t","s">>,
     feature |-> "",
     identifier |-> [kind |-> "ProtoNode", ident |-> "graphene_core::raster::HueSaturationNode<_, _, _>"],
     inputs |-> <<
       DocumentInputType_value("Image", TaggedValue("ImageFrame", "ImageFrame::empty()"), TRUE),
       DocumentInputType_value("Hue Shift", TaggedValue("F32", "0."), FALSE),
       DocumentInputType_value("Saturation Shift", TaggedValue("F32", "0."), FALSE),
       DocumentInputType_value("Lightness Shift", TaggedValue("F32", "0."), FALSE)>>,
     outputs |-> <<DocumentOutputType_new("Image", "Raster")>>,
     primary_output |-> FALSE,
     properties |-> "node_properties::adjust_hsl_properties"],
    \* Brightness/Contrast (lines 1513-1526)
    [name |-> <<"B","r","i","g","h","t","n","e","s","s","/","C","o","n","t","r","a","s","t">>,
     category |-> <<"I","m","a","g","e"," ","A","d","j","u","s","t","m","e","n","t","s">>,
     feature |-> "",
     identifier |-> [kind |-> "ProtoNode", ident |-> "graphene_core::raster::BrightnessContrastNode<_, _, _>"],
     inputs |-> <<
       DocumentInputType_value("Image", TaggedValue("ImageFrame", "ImageFrame::empty()"), TRUE),
       DocumentInputType_value("Brightness", TaggedValue("F32", "0."), FALSE),
       DocumentInputType_value("Contrast", TaggedValue("F32", "0."), FALSE),
       DocumentInputType_value("Use Legacy", TaggedValue("Bool", "false"), FALSE)>>,
     outputs |-> <<DocumentOutputType_new("Image", "Raster")>>,
     primary_output |-> FALSE,
     properties |-> "node_properties::brightness_contrast_properties"],
    \* Threshold (lines 1527-1540)
    [name |-> <<"T","h","r","e","s","h","o","l","d">>,
     category |-> <<"I","m","a","g","e"," ","A","d","j","u","s","t","m","e","n","t","s">>,
     feature |-> "",
     identifier |-> [kind |-> "ProtoNode", ident |-> "graphene_core::raster::ThresholdNode<_, _, _>"],
     inputs |-> <<
       DocumentInputType_value("Image", TaggedValue("ImageFrame", "ImageFrame::empty()"), TRUE),
       DocumentInputType_value("Min Luminance", TaggedValue("F32", "50."), FALSE),
       DocumentInputType_value("Max Luminance", TaggedValue("F32", "100."), FALSE),
       DocumentInputType_value("Luminance Calc", TaggedValue("LuminanceCalculation", "LuminanceCalculation::SRGB"), FALSE)>>,
     outputs |-> <<DocumentOutputType_new("Image", "Raster")>>,
     primary_output |-> FALSE,
     properties |-> "node_properties::adjust_threshold_properties"],
    \* Vibrance (lines 1541-1552)
    [name |-> <<"V","i","b","r","a","n","c","e">>,
     category |-> <<"I","m","a","g","e"," ","A","d","j","u","s","t","m","e","n","t","s">>,
     feature |-> "",
     identifier |-> [kind |-> "ProtoNode", ident |-> "graphene_core::raster::VibranceNode<_>"],
     inputs |-> <<
       DocumentInputType_value("Image", TaggedValue("ImageFrame", "ImageFrame::empty()"), TRUE),
       DocumentInputType_value("Vibrance", TaggedValue("F32", "0."), FALSE)>>,
     outputs |-> <<DocumentOutputType_new("Image", "Raster")>>,
     primary_output |-> FALSE,
     properties |-> "node_properties::adjust_vibrance_properties"],
    \* Channel Mixer (lines 1553-1587)
    [name |-> <<"C","h","a","n","n","e","l"," ","M","i","x","e","r">>,
     category |-> <<"I","m","a","g","e"," ","A","d","j","u","s","t","m","e","n","t","s">>,
     feature |-> "",
     identifier |-> [kind |-> "ProtoNode", ident |-> "graphene_core::raster::ChannelMixerNode<_, _, _, _, _, _, _, _, _, _, _, _, _, _, _, _, _>"],
     inputs |-> <<
       DocumentInputType_value("Image", TaggedValue("ImageFrame", "ImageFrame::empty()"), TRUE),
       DocumentInputType_value("Monochrome", TaggedValue("Bool", "false"), FALSE),
       DocumentInputType_value("Red", TaggedValue("F32", "40."), FALSE),
       DocumentInputType_value("Green", TaggedValue("F32", "40."), FALSE),
       DocumentInputType_value("Blue", TaggedValue("F32", "20."), FALSE),
       DocumentInputType_value("Constant", TaggedValue("F32", "0."), FALSE),
       DocumentInputType_value("(Red) Red", TaggedValue("F32", "100."), FALSE),
       DocumentInputType_value("(Red) Green", TaggedValue("F32", "0."), FALSE),
       DocumentInputType_value("(Red) Blue", TaggedValue("F32", "0."), FALSE),
       DocumentInputType_value("(Red) Constant", TaggedValue("F32", "0."), FALSE),
       DocumentInputType_value("(Green) Red", TaggedValue("F32", "0."), FALSE),
       DocumentInputType_value("(Green) Green", TaggedValue("F32", "100."), FALSE),
       DocumentInputType_value("(Green) Blue", TaggedValue("F32", "0."), FALSE),
       DocumentInputType_value("(Green) Constant", TaggedValue("F32", "0."), FALSE),
       DocumentInputType_value("(Blue) Red", TaggedValue("F32", "0."), FALSE),
       DocumentInputType_value("(Blue) Green", TaggedValue("F32", "0."), FALSE),
       DocumentInputType_value("(Blue) Blue", TaggedValue("F32", "100."), FALSE),
       DocumentInputType_value("(Blue) Constant", TaggedValue("F32", "0."), FALSE),
       DocumentInputType_value("Output Channel", TaggedValue("RedGreenBlue", "RedGreenBlue::Red"), FALSE)>>,
     outputs |-> <<DocumentOutputType_new("Image", "Raster")>>,
     primary_output |-> FALSE,
     properties |-> "node_properties::adjust_channel_mixer_properties"],
    \* Selective Color (lines 1588-1649)
    [name |-> <<"S","e","l","e","c","t","i","v","e"," ","C","o","l","o","r">>,
     category |-> <<"I","m","a","g","e"," ","A","d","j","u","s","t","m","e","n","t","s">>,
     feature |-> "",
     identifier |-> [kind |-> "ProtoNode", ident |-> "graphene_core::raster::SelectiveColorNode<_, _, _, _, _, _, _, _, _, _, _, _, _, _, _, _, _, _, _, _, _, _, _, _, _, _, _, _, _, _, _, _, _, _, _, _, _>"],
     inputs |-> <<
       DocumentInputType_value("Image", TaggedValue("ImageFrame", "ImageFrame::empty()"), TRUE),
       DocumentInputType_value("Mode", TaggedValue("RelativeAbsolute", "RelativeAbsolute::Relative"), FALSE),
       DocumentInputType_value("(Reds) Cyan", TaggedValue("F32", "0."), FALSE),
       DocumentInputType_value("(Reds) Magenta", TaggedValue("F32", "0."), FALSE),
       DocumentInputType_value("(Reds) Yellow", TaggedValue("F32", "0."), FALSE),
       DocumentInputType_value("(Reds) Black", TaggedValue("F32", "0."), FALSE),
       DocumentInputType_value("(Yellows) Cyan", TaggedValue("F32", "0."), FALSE),
       DocumentInputType_value("(Yellows) Magenta", TaggedValue("F32", "0."), FALSE),
       DocumentInputType_value("(Yellows) Yellow", TaggedValue("F32", "0."), FALSE),
       DocumentInputType_value("(Yellows) Black", TaggedValue("F32", "0."), FALSE),
       DocumentInputType_value("(Greens) Cyan", TaggedValue("F32", "0."), FALSE),
       DocumentInputType_value("(Greens) Magenta", TaggedValue("F32", "0."), FALSE),
       DocumentInputType_value("(Greens) Yellow", TaggedValue("F32", "0."), FALSE),
       DocumentInputType_value("(Greens) Black", TaggedValue("F32", "0."), FALSE),
       DocumentInputType_value("(Cyans) Cyan", TaggedValue("F32", "0."), FALSE),
       DocumentInputType_value("(Cyans) Magenta", TaggedValue("F32", "0."), FALSE),
       DocumentInputType_value("(Cyans) Yellow", TaggedValue("F32", "0."), FALSE),
       DocumentInputType_value("(Cyans) Black", TaggedValue("F32", "0."), FALSE),
       DocumentInputType_value("(Blues) Cyan", TaggedValue("F32", "0."), FALSE),
       DocumentInputType_value("(Blues) Magenta", TaggedValue("F32", "0."), FALSE),
       DocumentInputType_value("(Blues) Yellow", TaggedValue("F32", "0."), FALSE),
       DocumentInputType_value("(Blues) Black", TaggedValue("F32", "0."), FALSE),
       DocumentInputType_value("(Magentas) Cyan", TaggedValue("F32", "0."), FALSE),
       DocumentInputType_value("(Magentas) Magenta", TaggedValue("F32", "0."), FALSE),
       DocumentInputType_value("(Magentas) Yellow", TaggedValue("F32", "0."), FALSE),
       DocumentInputType_value("(Magentas) Black", TaggedValue("F32", "0."), FALSE),
       DocumentInputType_value("(Whites) Cyan", TaggedValue("F32", "0."), FALSE),
       DocumentInputType_value("(Whites) Magenta", TaggedValue("F32", "0."), FALSE),
       DocumentInputType_value("(Whites) Yellow", TaggedValue("F32", "0."), FALSE),
       DocumentInputType_value("(Whites) Black", TaggedValue("F32", "0."), FALSE),
       DocumentInputType_value("(Neutrals) Cyan", TaggedValue("F32", "0."), FALSE),
       DocumentInputType_value("(Neutrals) Magenta", TaggedValue("F32", "0."), FALSE),
       DocumentInputType_value("(Neutrals) Yellow", TaggedValue("F32", "0."), FALSE),
       DocumentInputType_value("(Neutrals) Black", TaggedValue("F32", "0."), FALSE),
       DocumentInputType_value("(Blacks) Cyan", TaggedValue("F32", "0."), FALSE),
       DocumentInputType_value("(Blacks) Magenta", TaggedValue("F32", "0."), FALSE),
       DocumentInputType_value("(Blacks) Yellow", TaggedValue("F32", "0."), FALSE),
       DocumentInputType_value("(Blacks) Black", TaggedValue("F32", "0."), FALSE),
       DocumentInputType_value("Colors", TaggedValue("SelectiveColorChoice", "SelectiveColorChoice::Reds"), FALSE)>>,
     outputs |-> <<DocumentOutputType_new("Image", "Raster")>>,
     primary_output |-> FALSE,
     properties |-> "node_properties::adjust_selective_color_properties"],
    \* Opacity (lines 1650-1661)
    [name |-> <<"O","p","a","c","i","t","y">>,
     category |-> <<"I","m","a","g","e"," ","A","d","j","u","s","t","m","e","n","t","s">>,
     feature |-> "",
     identifier |-> [kind |-> "ProtoNode", ident |-> "graphene_core::raster::OpacityNode<_>"],
     inputs |-> <<
       DocumentInputType_value("Image", TaggedValue("ImageFrame", "ImageFrame::empty()"), TRUE),
       DocumentInputType_value("Factor", TaggedValue("F32", "100."), FALSE)>>,
     outputs |-> <<DocumentOutputType_new("Image", "Raster")>>,
     primary_output |-> FALSE,
     properties |-> "node_properties::multiply_opacity"],
    \* Posterize (lines 1662-1673)
    [name |-> <<"P","o","s","t","e","r","i","z","e">>,
     category |-> <<"I","m","a","g","e"," ","A","d","j","u","s","t","m","e","n","t","s">>,
     feature |-> "",
     identifier |-> [kind |-> "ProtoNode", ident |-> "graphene_core::raster::PosterizeNode<_>"],
     inputs |-> <<
       DocumentInputType_value("Image", TaggedValue("ImageFrame", "ImageFrame::empty()"), TRUE),
       DocumentInputType_value("Value", TaggedValue("F32", "4."), FALSE)>>,
     outputs |-> <<DocumentOutputType_new("Image", "Raster")>>,
     primary_output |-> FALSE,
     properties |-> "node_properties::posterize_properties"],
    \* Exposure (lines 1674-1687)
    [name |-> <<"E","x","p","o","s","u","r","e">>,
     category |-> <<"I","m","a","g","e"," ","A","d","j","u","s","t","m","e","n","t","s">>,
     feature |-> "",
     identifier |-> [kind |-> "ProtoNode", ident |-> "graphene_core::raster::ExposureNode<_, _, _>"],
     inputs |-> <<
       DocumentInputType_value("Image", TaggedValue("ImageFrame", "ImageFrame::empty()"), TRUE),
       DocumentInputType_value("Exposure", TaggedValue("F32", "0."), FALSE),
       DocumentInputType_value("Offset", TaggedValue("F32", "0."), FALSE),
       DocumentInputType_value("Gamma Correction", TaggedValue("F32", "1."), FALSE)>>,
     outputs |-> <<DocumentOutputType_new("Image", "Raster")>>,
     primary_output |-> FALSE,
     properties |-> "node_properties::exposure_properties"],
    \* Add (lines 1688-1699)
    [name |-> <<"A","d","d">>,
     category |-> <<"M","a","t","h">>,
     feature |-> "",
     identifier |-> [kind |-> "ProtoNode", ident |-> "graphene_core::ops::AddParameterNode<_>"],
     inputs |-> <<
       DocumentInputType_value("Primary", TaggedValue("F32", "0."), TRUE),
       DocumentInputType_value("Addend", TaggedValue("F32", "0."), FALSE)>>,
     outputs |-> <<DocumentOutputType_new("Output", "Number")>>,
     primary_output |-> FALSE,
     properties |-> "node_properties::add_properties"],
    \* Subtract (lines 1700-1711)
    [name |-> <<"S","u","b","t","r","a","c","t">>,
     category |-> <<"M","a","t","h">>,
     feature |-> "",
     identifier |-> [kind |-> "ProtoNode", ident |-> "graphene_core::ops::AddParameterNode<_>"],
     inputs |-> <<
       DocumentInputType_value("Primary", TaggedValue("F32", "0."), TRUE),
       DocumentInputType_value("Subtrahend", TaggedValue("F32", "0."), FALSE)>>,
     outputs |-> <<DocumentOutputType_new("Output", "Number")>>,
     primary_output |-> FALSE,
     properties |-> "node_properties::subtract_properties"],
    \* Divide (lines 1712-1723)
    [name |-> <<"D","i","v","i","d","e">>,
     category |-> <<"M","a","t","h">>,
     feature |-> "",
     identifier |-> [kind |-> "ProtoNode", ident |-> "graphene_core::ops::DivideParameterNode<_>"],
     inputs |-> <<
       DocumentInputType_value("Primary", TaggedValue("F32", "0."), TRUE),
       DocumentInputType_value("Divisor", TaggedValue("F32", "0."), FALSE)>>,
     outputs |-> <<DocumentOutputType_new("Output", "Number")>>,
     primary_output |-> FALSE,
     properties |-> "node_properties::divide_properties"],
    \* Multiply (lines 1724-1735)
    [name |-> <<"M","u","l","t","i","p","l","y">>,
     category |-> <<"M","a","t","h">>,
     feature |-> "",
     identifier |-> [kind |-> "ProtoNode", ident |-> "graphene_core::ops::MultiplyParameterNode<_>"],
     inputs |-> <<
       DocumentInputType_value("Primary", TaggedValue("F32", "0."), TRUE),
       DocumentInputType_value("Multiplicand", TaggedValue("F32", "0."), FALSE)>>,
     outputs |-> <<DocumentOutputType_new("Output", "Number")>>,
     primary_output |-> FALSE,
     properties |-> "node_properties::multiply_properties"],
    \* Exponent (lines 1736-1747)
    [name |-> <<"E","x","p","o","n","e","n","t">>,
     category |-> <<"M","a","t","h">>,
     feature |-> "",
     identifier |-> [kind |-> "ProtoNode", ident |-> "graphene_core::ops::ExponentParameterNode<_>"],
     inputs |-> <<
       DocumentInputType_value("Primary", TaggedValue("F32", "0."), TRUE),
       DocumentInputType_value("Power", TaggedValue("F32", "0."), FALSE)>>,
     outputs |-> <<DocumentOutputType_new("Output", "Number")>>,
     primary_output |-> FALSE,
     properties |-> "node_properties::exponent_properties"],
    \* Max (lines 1748-1759)
    [name |-> <<"M","a","x">>,
     category |-> <<"M","a","t","h">>,
     feature |-> "",
     identifier |-> [kind |-> "ProtoNode", ident |-> "graphene_core::ops::MaxParameterNode<_>"],
     inputs |-> <<
       DocumentInputType_value("First", TaggedValue("F32", "0."), TRUE),
       DocumentInputType_value("Second", TaggedValue("F32", "0."), TRUE)>>,
     outputs |-> <<DocumentOutputType_new("Output", "Number")>>,
     primary_output |-> FALSE,
     properties |-> "node_properties::max_properties"],
    \* Min (lines 1760-1771)
    [name |-> <<"M","i","n">>,
     category |-> <<"M","a","t","h">>,
     feature |-> "",
     identifier |-> [kind |-> "ProtoNode", ident |-> "graphene_core::ops::MinParameterNode<_>"],
     inputs |-> <<
       DocumentInputType_value("First", TaggedValue("F32", "0."), TRUE),
       DocumentInputType_value("Second", TaggedValue("F32", "0."), TRUE)>>,
     outputs |-> <<DocumentOutputType_new("Output", "Number")>>,
     primary_output |-> FALSE,
     properties |-> "node_properties::min_properties"],
    \* Equality (lines 1772-1783)
    [name |-> <<"E","q","u","a","l","i","t","y">>,
     category |-> <<"M","a","t","h">>,
     feature |-> "",
     identifier |-> [kind |-> "ProtoNode", ident |-> "graphene_core::ops::EqParameterNode<_>"],
     inputs |-> <<
       DocumentInputType_value("First", TaggedValue("F32", "0."), TRUE),
       DocumentInputType_value("Second", TaggedValue("F32", "0."), TRUE)>>,
     outputs |-> <<DocumentOutputType_new("Output", "Number")>>,
     primary_output |-> FALSE,
     properties |-> "node_properties::eq_properties"],
    \* Modulo (lines 1784-1795)
    [name |-> <<"M","o","d","u","l","o">>,
     category |-> <<"M","a","t","h">>,
     feature |-> "",
     identifier |-> [kind |-> "ProtoNode", ident |-> "graphene_core::ops::ModuloParameterNode<_>"],
     inputs |-> <<
       DocumentInputType_value("Primary", TaggedValue("F32", "0."), TRUE),
       DocumentInputType_value("Modulus", TaggedValue("F32", "0."), FALSE)>>,
     outputs |-> <<DocumentOutputType_new("Output", "Number")>>,
     primary_output |-> FALSE,
     properties |-> "node_properties::modulo_properties"],
    \* Log to Console (lines 1796-1804)
    [name |-> <<"L","o","g"," ","t","o"," ","C","o","n","s","o","l","e">>,
     category |-> <<"L","o","g","i","c">>,
     feature |-> "",
     identifier |-> [kind |-> "ProtoNode", ident |-> "graphene_core::logic::LogToConsoleNode"],
     inputs |-> <<
       DocumentInputType_value("First", TaggedValue("String", "\"Not Connected to a value yet\".into()"), TRUE)>>,
     outputs |-> <<DocumentOutputType_new("Output", "General")>>,
     primary_output |-> FALSE,
     properties |-> "node_properties::no_properties"],
    IMAGINATE_NODE,
    \* Unit Circle Generator (lines 1806-1813)
    [name |-> <<"U","n","i","t"," ","C","i","r","c","l","e"," ","G","e","n","e","r","a","t","o","r">>,
     category |-> <<"V","e","c","t","o","r">>,
     feature |-> "",
     identifier |-> [kind |-> "ProtoNode", ident |-> "graphene_core::vector::generator_nodes::UnitCircleGenerator"],
     inputs |-> <<
       DocumentInputType_none>>,
     outputs |-> <<DocumentOutputType_new("Vector", "Subpath")>>,
     primary_output |-> FALSE,
     properties |-> "node_properties::no_properties"],
    \* Shape (lines 1814-1824)
    [name |-> <<"S","h","a","p","e">>,
     category |-> <<"V","e","c","t","o","r">>,
     feature |-> "",
     identifier |-> [kind |-> "ProtoNode", ident |-> "graphene_core::vector::generator_nodes::PathGenerator<_>"],
     inputs |-> <<
       DocumentInputType_value("Path Data", TaggedValue("Subpaths", "vec![]"), FALSE),
       DocumentInputType_value("Mirror", TaggedValue("ManipulatorGroupIds", "vec![]"), FALSE)>>,
     outputs |-> <<DocumentOutputType_new("Vector", "Subpath")>>,
     primary_output |-> FALSE,
     properties |-> "node_properties::no_properties"],
    \* Text (lines 1825-1838)
    [name |-> <<"T","e","x","t">>,
     category |-> <<"V","e","c","t","o","r">>,
     feature |-> "",
     identifier |-> [kind |-> "ProtoNode", ident |-> "graphene_core::text::TextGenerator<_, _, _>"],
     inputs |-> <<
       DocumentInputType_none,
       DocumentInputType_value("Text", TaggedValue("String", "\"hello world\".to_string()"), FALSE),
       DocumentInputType_value("Font", TaggedValue("Font", "Font::new(DEFAULT_FONT_FAMILY.into(), DEFAULT_FONT_STYLE.into())"), FALSE),
       DocumentInputType_value("Size", TaggedValue("F64", "24."), FALSE)>>,
     outputs |-> <<DocumentOutputType_new("Vector", "Subpath")>>,
     primary_output |-> FALSE,
     properties |-> "node_properties::node_section_font"],
    \* Transform (lines 1839-1854)
    [name |-> <<"T","r","a","n","s","f","o","r","m">>,
     category |-> <<"T","r","a","n","s","f","o","r","m">>,
     feature |-> "",
     identifier |-> [kind |-> "ProtoNode", ident |-> "graphene_core::transform::TransformNode<_, _, _, _, _>"],
     inputs |-> <<
       DocumentInputType_value("Data", TaggedValue("VectorData", "graphene_core::vector::VectorData::empty()"), TRUE),
       DocumentInputType_value("Translation", TaggedValue("DVec2", "DVec2::ZERO"), FALSE),
       DocumentInputType_value("Rotation", TaggedValue("F32", "0."), FALSE),
       DocumentInputType_value("Scale", TaggedValue("DVec2", "DVec2::ONE"), FALSE),
       DocumentInputType_value("Skew", TaggedValue("DVec2", "DVec2::ZERO"), FALSE),
       DocumentInputType_value("Pivot", TaggedValue("DVec2", "DVec2::splat(0.5)"), FALSE)>>,
     outputs |-> <<DocumentOutputType_new("Data", "Subpath")>>,
     primary_output |-> FALSE,
     properties |-> "node_properties::transform_properties"],
    \* SetTransform (lines 1855-1865)
    [name |-> <<"S","e","t","T","r","a","n","s","f","o","r","m">>,
     category |-> <<"T","r","a","n","s","f","o","r","m">>,
     feature |-> "",
     identifier |-> [kind |-> "ProtoNode", ident |-> "graphene_core::transform::SetTransformNode<_>"],
     inputs |-> <<
       DocumentInputType_value("Data", TaggedValue("VectorData", "graphene_core::vector::VectorData::empty()"), TRUE),
       DocumentInputType_value("Transform", TaggedValue("DAffine2", "DAffine2::IDENTITY"), TRUE)>>,
     outputs |-> <<DocumentOutputType_new("Data", "Subpath")>>,
     primary_output |-> FALSE,
     properties |-> "node_properties::no_properties"],
    \* Fill (lines 1866-1883)
    [name |-> <<"F","i","l","l">>,
     category |-> <<"V","e","c","t","o","r">>,
     feature |-> "",
     identifier |-> [kind |-> "ProtoNode", ident |-> "graphene_core::vector::SetFillNode<_, _, _, _, _, _, _>"],
     inputs |-> <<
       DocumentInputType_value("Vector Data", TaggedValue("VectorData", "graphene_core::vector::VectorData::empty()"), TRUE),
       DocumentInputType_value("Fill Type", TaggedValue("FillType", "vector::style::FillType::None"), FALSE),
       DocumentInputType_value("Solid Color", TaggedValue("OptionalColor", "None"), FALSE),
       DocumentInputType_value("Gradient Type", TaggedValue("GradientType", "vector::style::GradientType::Linear"), FALSE),
       DocumentInputType_value("Start", TaggedValue("DVec2", "DVec2::new(0., 0.5)"), FALSE),
       DocumentInputType_value("End", TaggedValue("DVec2", "DVec2::new(1., 0.5)"), FALSE),
       DocumentInputType_value("Transform", TaggedValue("DAffine2", "DAffine2::IDENTITY"), FALSE),
       DocumentInputType_value("Positions", TaggedValue("GradientPositions", "vec![(0., Some(Color::BLACK)), (1., Some(Color::WHITE))]"), FALSE)>>,
     outputs |-> <<DocumentOutputType_new("Vector", "Subpath")>>,
     primary_output |-> FALSE,
     properties |-> "node_properties::fill_properties"],
    \* Stroke (lines 1884-1901)
    [name |-> <<"S","t","r","o","k","e">>,
     category |-> <<"V","e","c","t","o","r">>,
     feature |-> "",
     identifier |-> [kind |-> "ProtoNode", ident |-> "graphene_core::vector::SetStrokeNode<_, _, _, _, _, _, _>"],
     inputs |-> <<
       DocumentInputType_value("Vector Data", TaggedValue("VectorData", "graphene_core::vector::VectorData::empty()"), TRUE),
       DocumentInputType_value("Color", TaggedValue("OptionalColor", "Some(Color::BLACK)"), FALSE),
       DocumentInputType_value("Weight", TaggedValue("F32", "0."), FALSE),
       DocumentInputType_value("Dash Lengths", TaggedValue("VecF32", "Vec::new()"), FALSE),
       DocumentInputType_value("Dash Offset", TaggedValue("F32", "0."), FALSE),
       DocumentInputType_value("Line Cap", TaggedValue("LineCap", "graphene_core::vector::style::LineCap::Butt"), FALSE),
       DocumentInputType_value("Line Join", TaggedValue("LineJoin", "graphene_core::vector::style::LineJoin::Miter"), FALSE),
       DocumentInputType_value("Miter Limit", TaggedValue("F32", "4."), FALSE)>>,
     outputs |-> <<DocumentOutputType_new("Vector", "Subpath")>>,
     primary_output |-> FALSE,
     properties |-> "node_properties::stroke_properties"],
    \* Repeat (lines 1902-1914)
    [name |-> <<"R","e","p","e","a","t">>,
     category |-> <<"V","e","c","t","o","r">>,
     feature |-> "",
     identifier |-> [kind |-> "ProtoNode", ident |-> "graphene_core::vector::RepeatNode<_, _>"],
     inputs |-> <<
       DocumentInputType_value("Vector Data", TaggedValue("VectorData", "graphene_core::vector::VectorData::empty()"), TRUE),
       DocumentInputType_value("Direction", TaggedValue("DVec2", "(100., 0.).into()"), FALSE),
       DocumentInputType_value("Count", TaggedValue("U32", "10"), FALSE)>>,
     outputs |-> <<DocumentOutputType_new("Vector", "Subpath")>>,
     primary_output |-> FALSE,
     properties |-> "node_properties::repeat_properties"],
    \* Bounding Box (lines 1915-1923)
    [name |-> <<"B","o","u","n","d","i","n","g"," ","B","o","x">>,
     category |-> <<"V","e","c","t","o","r">>,
     feature |-> "",
     identifier |-> [kind |-> "ProtoNode", ident |-> "graphene_core::vector::BoundingBoxNode"],
     inputs |-> <<
       DocumentInputType_value("Vector Data", TaggedValue("VectorData", "graphene_core::vector::VectorData::empty()"), TRUE)>>,
     outputs |-> <<DocumentOutputType_new("Vector", "Subpath")>>,
     primary_output |-> FALSE,
     properties |-> "node_properties::no_properties"],
    \* Circular Repeat (lines 1924-1937)
    [name |-> <<"C","i","r","c","u","l","a","r"," ","R","e","p","e","a","t">>,
     category |-> <<"V","e","c","t","o","r">>,
     feature |-> "",
     identifier |-> [kind |-> "ProtoNode", ident |-> "graphene_core::vector::CircularRepeatNode<_, _, _>"],
     inputs |-> <<
       DocumentInputType_value("Vector Data", TaggedValue("VectorData", "graphene_core::vector::VectorData::empty()"), TRUE),
       DocumentInputType_value("Rotation Offset", TaggedValue("F32", "0."), FALSE),
       DocumentInputType_value("Radius", TaggedValue("F32", "5."), FALSE),
       DocumentInputType_value("Count", TaggedValue("U32", "10"), FALSE)>>,
     outputs |-> <<DocumentOutputType_new("Vector", "Subpath")>>,
     primary_output |-> FALSE,
     properties |-> "node_properties::circle_repeat_properties"],
    \* Image Segmentation (lines 1938-1948)
    [name |-> <<"I","m","a","g","e"," ","S","e","g","m","e","n","t","a","t","i","o","n">>,
     category |-> <<"I","m","a","g","e"," ","A","d","j","u","s","t","m","e","n","t","s">>,
     feature |-> "",
     identifier |-> [kind |-> "ProtoNode", ident |-> "graphene_std::image_segmentation::ImageSegmentationNode<_>"],
     inputs |-> <<
       DocumentInputType_value("Image", TaggedValue("ImageFrame", "ImageFrame::empty()"), TRUE),
       DocumentInputType_value("Mask", TaggedValue("ImageFrame", "ImageFrame::empty()"), TRUE)>>,
     outputs |-> <<DocumentOutputType_new("Segments", "Raster")>>,
     primary_output |-> FALSE,
     properties |-> "node_properties::no_properties"],
    \* Index (lines 1949-1960)
    [name |-> <<"I","n","d","e","x">>,
     category |-> <<"I","m","a","g","e"," ","A","d","j","u","s","t","m","e","n","t","s">>,
     feature |-> "",
     identifier |-> [kind |-> "ProtoNode", ident |-> "graphene_core::raster::IndexNode<_>"],
     inputs |-> <<
       DocumentInputType_value("Segmentation", TaggedValue("Segments", "vec![ImageFrame::empty()]"), TRUE),
       DocumentInputType_value("Index", TaggedValue("U32", "0"), FALSE)>>,
     outputs |-> <<DocumentOutputType_new("Image", "Raster")>>,
     primary_output |-> FALSE,
     properties |-> "node_properties::index_node_properties"]
  >>

---------------------------------------------------------------------------
(* Strings.                                                                *)

UpperChars == <<"A","B","C","D","E","F","G","H","I","J","K","L","M",
                "N","O","P","Q","R","S","T","U","V","W","X","Y","Z">>
LowerChars == <<"a","b","c","d","e","f","g","h","i","j","k","l","m",
                "n","o","p","q","r","s","t","u","v","w","x","y","z">>

\* u8::to_ascii_lowercase on one character.
to_ascii_lowercase(c) ==
    IF \E i \in 1..Len(UpperChars) : UpperChars[i] = c
    THEN LowerChars[CHOOSE i \in 1..Len(UpperChars) : UpperChars[i] = c]
    ELSE c

\* u8::to_ascii_uppercase on one character.
to_ascii_uppercase(c) ==
    IF \E i \in 1..Len(LowerChars) : LowerChars[i] = c
    THEN UpperChars[CHOOSE i \in 1..Len(LowerChars) : LowerChars[i] = c]
    ELSE c

\* str::eq_ignore_ascii_case
eq_ignore_ascii_case(a, b) ==
    /\ Len(a) = Len(b)
    /\ \A i \in 1..Len(a) : to_ascii_lowercase(a[i]) = to_ascii_lowercase(b[i])

---------------------------------------------------------------------------
(* Option, and the outcome of a call.                                      *)

None == [some |-> FALSE]
Some(v) == [some |-> TRUE, value |-> v]

Returned(v) == [status |-> "ok", value |-> v]
Panicked(msg) == [status |-> "panic", value |-> msg]
NoCall == [op |-> "none"]
NoRet == [status |-> "none", value |-> ""]

---------------------------------------------------------------------------
(* The registry.                                                           *)

\* static_nodes(), as compiled with the given cargo features.
static_nodes(feats) ==
    SelectSeq(all_static_nodes, LAMBDA e : e.feature = "" \/ e.feature \in feats)

\* The Lazy before its first dereference.
UninitCell == [state |-> "Uninit", value |-> <<>>]

\* Lazy::force as one step of a single caller: the value, built if needed.
ForcedCell(c, feats) ==
    IF c.state = "Init" THEN c ELSE [state |-> "Init", value |-> static_nodes(feats)]

ForcedBuilds(c, n) == IF c.state = "Init" THEN n ELSE n + 1

\* Variant of resolve_in: names compared without regard to ASCII case.
resolve_in_ignoring_case(catalog, name) ==
    IF \E i \in 1..Len(catalog) : eq_ignore_ascii_case(catalog[i].name, name)
    THEN Some(catalog[CHOOSE i \in 1..Len(catalog) :
                        /\ eq_ignore_ascii_case(catalog[i].name, name)
                        /\ \A j \in 1..(i - 1) : ~eq_ignore_ascii_case(catalog[j].name, name)])
    ELSE None

\* Iterator::find over the catalog: the first entry whose name is `name`.
resolve_in(catalog, name) ==
    IF \E i \in 1..Len(catalog) : catalog[i].name = name
    THEN Some(catalog[CHOOSE i \in 1..Len(catalog) :
                        /\ catalog[i].name = name
                        /\ \A j \in 1..(i - 1) : catalog[j].name # name])
    ELSE None

FrontendNodeType_new(name, category) == [name |-> name, category |-> category]

IgnoreCategory == <<"i","g","n","o","r","e">>

\* Variant of collect_in: the category compared exactly with "ignore".
collect_in_exact_case(catalog) ==
    LET kept == SelectSeq(catalog, LAMBDA node_type : node_type.category # IgnoreCategory)
    IN  [i \in 1..Len(kept) |-> FrontendNodeType_new(kept[i].name, kept[i].category)]

\* filter(..).map(..).collect() over the catalog, in catalog order.
collect_in(catalog) ==
    LET kept == SelectSeq(catalog,
                    LAMBDA node_type : ~eq_ignore_ascii_case(node_type.category, IgnoreCategory))
    IN  [i \in 1..Len(kept) |-> FrontendNodeType_new(kept[i].name, kept[i].category)]

---------------------------------------------------------------------------
(* DocumentNodeType: instantiation.                                        *)

\* Variant of generate_implementation: the Extract marker is not carried
\* through and the node gets the default (identity) implementation.
generate_implementation_dropping_extract(self) ==
    CASE self.identifier.kind = "DocumentNode" -> NetworkImpl(self.identifier.network)
      [] self.identifier.kind = "ProtoNode" -> Unresolved(self.identifier.ident)
      [] self.identifier.kind = "Extract" -> Unresolved("graphene_core::ops::IdNode")

generate_implementation(self) ==
    CASE self.identifier.kind = "DocumentNode" -> NetworkImpl(self.identifier.network)
      [] self.identifier.kind = "ProtoNode" -> Unresolved(self.identifier.ident)
      [] self.identifier.kind = "Extract" -> ExtractImpl

InputCountMessage == "Inputs passed from the graph must be equal to the number required"

\* Variant of to_document_node: only too many inputs are rejected.
to_document_node_accepting_fewer(self, inputs, metadata) ==
    IF Len(inputs) > Len(self.inputs)
    THEN Panicked(InputCountMessage)
    ELSE Returned(DocumentNode(self.name, inputs, generate_implementation(self), metadata))

to_document_node(self, inputs, metadata) ==
    IF Len(inputs) # Len(self.inputs)
    THEN Panicked(InputCountMessage)
    ELSE Returned(DocumentNode(self.name, inputs, generate_implementation(self), metadata))

\* The entries of a sequence of options that are present, in order.
RECURSIVE present(_)
present(opts) ==
    IF opts = <<>> THEN <<>>
    ELSE IF Head(opts).some THEN <<Head(opts).value>> \o present(Tail(opts))
    ELSE present(Tail(opts))

\* Variant of default_inputs: empty override entries are skipped instead of
\* holding their position (a flatten over the overrides).
default_inputs_skipping_empty(self, input_override) ==
    [i \in 1..Len(self.inputs) |->
        IF i <= Len(present(input_override))
        THEN present(input_override)[i]
        ELSE self.inputs[i].default]

\* The inputs to_document_node_default_inputs hands to to_document_node.
default_inputs(self, input_override) ==
    [i \in 1..Len(self.inputs) |->
        IF i <= Len(input_override) /\ input_override[i].some
        THEN input_override[i].value
        ELSE self.inputs[i].default]

to_document_node_default_inputs(self, input_override, metadata) ==
    to_document_node(self, default_inputs(self, input_override), metadata)


---------------------------------------------------------------------------
(* The eyedropper tool: eyedropper_tool.rs.                                *)

\* enum EyedropperToolFsmState
Ready == "Ready"
SamplingPrimary == "SamplingPrimary"
SamplingSecondary == "SamplingSecondary"
EyedropperToolFsmState == {Ready, SamplingPrimary, SamplingSecondary}

\* enum EyedropperToolMessage
Abort == "Abort"
LeftPointerDown == "LeftPointerDown"
LeftPointerUp == "LeftPointerUp"
PointerMove == "PointerMove"
RightPointerDown == "RightPointerDown"
RightPointerUp == "RightPointerUp"
EyedropperToolMessage ==
    {Abort, LeftPointerDown, LeftPointerUp, PointerMove, RightPointerDown, RightPointerUp}

\* ToolMessage: a message of the eyedropper, or of another tool.
ToolMessage_Eyedropper(event) == [tool |-> "Eyedropper", event |-> event]
ToolMessage_Other == [tool |-> "Select", event |-> "PointerMove"]

\* FrontendMessage::UpdateEyedropperSamplingState
UpdateEyedropperSamplingState(mouse_position, primary_color, secondary_color,
                              set_color_choice) ==
    [message |-> "UpdateEyedropperSamplingState", mouse_position |-> mouse_position,
     primary_color |-> primary_color, secondary_color |-> secondary_color,
     set_color_choice |-> set_color_choice]

\* Variant of disable_cursor_preview: the update commits a colour.
disable_cursor_preview_committing(responses) ==
    Append(responses, UpdateEyedropperSamplingState(None, "", "", Some("Primary")))

disable_cursor_preview(responses) ==
    Append(responses, UpdateEyedropperSamplingState(None, "", "", None))

update_cursor_preview(responses, input, global_tool_data, set_color_choice) ==
    Append(responses,
           UpdateEyedropperSamplingState(Some(input.mouse.position),
                                         "#" \o global_tool_data.primary_color,
                                         "#" \o global_tool_data.secondary_color,
                                         set_color_choice))

\* ViewportBounds::in_bounds
in_bounds(viewport_bounds, position) ==
    /\ position[1] >= viewport_bounds.top_left[1]
    /\ position[2] >= viewport_bounds.top_left[2]
    /\ position[1] <= viewport_bounds.bottom_right[1]
    /\ position[2] <= viewport_bounds.bottom_right[2]

\* Variant of set_color_choice: the primary colour whatever was sampled.
set_color_choice_always_primary(self) == "Primary"

\* The colour a pointer-up commits: line 125.
set_color_choice(self) == IF self = SamplingPrimary THEN "Primary" ELSE "Secondary"

\* The outcome of a transition: the next state and the response queue.
Transition(state, responses) == [fsm_state |-> state, responses |-> responses]

\* Variant of transition: a pointer-down of the other button while sampling
\* switches the kind of sampling.
transition_resampling(self, event, input, global_tool_data, responses) ==
    IF event.tool = "Eyedropper" /\ event.event \in {LeftPointerDown, RightPointerDown}
    THEN Transition(IF event.event = LeftPointerDown THEN SamplingPrimary
                    ELSE SamplingSecondary,
                    update_cursor_preview(responses, input, global_tool_data, None))
    ELSE Transition(self, responses)

\* EyedropperToolFsmState::transition
transition(self, event, input, global_tool_data, responses) ==
    IF event.tool = "Eyedropper"
    THEN CASE self = Ready /\ event.event \in {LeftPointerDown, RightPointerDown} ->
                Transition(IF event.event = LeftPointerDown THEN SamplingPrimary
                           ELSE SamplingSecondary,
                           update_cursor_preview(responses, input, global_tool_data, None))
           [] self \in {SamplingPrimary, SamplingSecondary} /\ event.event = PointerMove ->
                Transition(self,
                           IF in_bounds(input.viewport_bounds, input.mouse.position)
                           THEN update_cursor_preview(responses, input, global_tool_data, None)
                           ELSE disable_cursor_preview(responses))
           [] self \in {SamplingPrimary, SamplingSecondary}
                    /\ event.event \in {LeftPointerUp, RightPointerUp} ->
                Transition(Ready,
                           disable_cursor_preview(
                               update_cursor_preview(responses, input, global_tool_data,
                                                     Some(set_color_choice(self)))))
           [] OTHER ->
                IF event.event = Abort
                THEN Transition(Ready, disable_cursor_preview(responses))
                ELSE Transition(self, responses)
    ELSE Transition(self, responses)

---------------------------------------------------------------------------
(* Network construction helpers.                                           *)

\* NodeNetwork::push_node: the node gets the next id and becomes the
\* network's output; when asked to, its first input is connected to the
\* output the network had.  Where the node is placed on the canvas is left
\* out.
push_node(network, node, connect_to_previous) ==
    LET id == Cardinality(DOMAIN network.nodes)
        input == NodeInput_node(network.outputs[1].node_id, network.outputs[1].node_output_index)
        linked == IF connect_to_previous /\ network.outputs # <<>>
                  THEN [node EXCEPT !.inputs = IF @ = <<>> THEN <<input>>
                                               ELSE [@ EXCEPT ![1] = input]]
                  ELSE node
    IN  [network EXCEPT !.nodes = (id :> linked) @@ @,
                        !.outputs = <<NodeOutput_new(id, 0)>>]

ShapeName == <<"S","h","a","p","e">>
TransformName == <<"T","r","a","n","s","f","o","r","m">>
FillName == <<"F","i","l","l">>
StrokeName == <<"S","t","r","o","k","e">>
OutputName == <<"O","u","t","p","u","t">>

\* The first of the named types the catalog lacks, in the order of the
\* lookups; "" when all are found.
FirstMissing(catalog, names) ==
    IF \A i \in DOMAIN names : resolve_in(catalog, names[i][1]).some THEN ""
    ELSE names[CHOOSE i \in DOMAIN names :
                  /\ ~resolve_in(catalog, names[i][1]).some
                  /\ \A j \in 1..(i - 1) : resolve_in(catalog, names[j][1]).some][2]

\* Variant of new_vector_network: no node is connected to the one before.
new_vector_network_unconnected(catalog, subpaths) ==
    LET path_generator == resolve_in(catalog, ShapeName).value
        transform == resolve_in(catalog, TransformName).value
        fill == resolve_in(catalog, FillName).value
        stroke == resolve_in(catalog, StrokeName).value
        output == resolve_in(catalog, OutputName).value
        network == NodeNetwork(<<0>>, <<>>, <<>>)
        first == push_node(network,
                    to_document_node_default_inputs(path_generator,
                        <<Some(NodeInput_value(TaggedValue("Subpaths", subpaths), FALSE))>>,
                        DocumentNodeMetadata_position(<<0, 4>>)).value, FALSE)
        second == push_node(first,
                    to_document_node_default_inputs(transform, <<None>>, DefaultMetadata).value, FALSE)
        third == push_node(second,
                    to_document_node_default_inputs(fill, <<None>>, DefaultMetadata).value, FALSE)
        fourth == push_node(third,
                    to_document_node_default_inputs(stroke, <<None>>, DefaultMetadata).value, FALSE)
    IN  Returned(push_node(fourth,
                    to_document_node_default_inputs(output, <<None>>, DefaultMetadata).value, FALSE))

new_vector_network(catalog, subpaths) ==
    LET missing == FirstMissing(catalog,
                      <<<<ShapeName, "Shape node does not exist">>,
                        <<TransformName, "Transform node does not exist">>,
                        <<FillName, "Fill node does not exist">>,
                        <<StrokeName, "Stroke node does not exist">>,
                        <<OutputName, "Output node does not exist">>>>)
        path_generator == resolve_in(catalog, ShapeName).value
        transform == resolve_in(catalog, TransformName).value
        fill == resolve_in(catalog, FillName).value
        stroke == resolve_in(catalog, StrokeName).value
        output == resolve_in(catalog, OutputName).value
        network == NodeNetwork(<<0>>, <<>>, <<>>)
        first == push_node(network,
                    to_document_node_default_inputs(path_generator,
                        <<Some(NodeInput_value(TaggedValue("Subpaths", subpaths), FALSE))>>,
                        DocumentNodeMetadata_position(<<0, 4>>)).value, FALSE)
        second == push_node(first,
                    to_document_node_default_inputs(transform, <<None>>, DefaultMetadata).value, TRUE)
        third == push_node(second,
                    to_document_node_default_inputs(fill, <<None>>, DefaultMetadata).value, TRUE)
        fourth == push_node(third,
                    to_document_node_default_inputs(stroke, <<None>>, DefaultMetadata).value, TRUE)
    IN  IF missing # "" THEN Panicked(missing)
        ELSE Returned(push_node(fourth,
                    to_document_node_default_inputs(output, <<None>>, DefaultMetadata).value, TRUE))

InputFrameName == <<"I","n","p","u","t"," ","F","r","a","m","e">>
TextName == <<"T","e","x","t">>

\* The greatest i32.
I32_MAX == 2147483647

\* i32 addition as a build without overflow checks computes it.
wrapping_add(a, b) ==
    IF b > 0 /\ a > I32_MAX - b THEN ((a - I32_MAX) - 1) + ((b - I32_MAX) - 1)
    ELSE IF b < 0 /\ a < (-I32_MAX - 1) - b THEN ((a + I32_MAX) + 1) + ((b + I32_MAX) + 1)
    ELSE a + b

OverflowMessage == "attempt to add with overflow"

\* Variant of new_image_network: the Output node is given no input.
new_image_network_without_input(catalog, output_offset, output_node_id, overflow_checks) ==
    LET output == resolve_in(catalog, OutputName)
    IN  IF ~output.some THEN Panicked("Output node does not exist")
        ELSE to_document_node(output.value, <<>>, DefaultMetadata)

\* new_image_network.  `overflow_checks` is whether the build panics on
\* integer overflow or wraps.
new_image_network(catalog, output_offset, output_node_id, overflow_checks) ==
    LET network == NodeNetwork(<<0>>, <<>>, <<>>)
        input_frame == resolve_in(catalog, InputFrameName)
        output == resolve_in(catalog, OutputName)
    IN  IF ~input_frame.some THEN Panicked("Input Frame node does not exist")
        ELSE LET first == to_document_node_default_inputs(input_frame.value, <<>>,
                              DocumentNodeMetadata_position(<<8, 4>>))
             IN  IF first.status = "panic" THEN first
                 ELSE IF ~output.some THEN Panicked("Output node does not exist")
                 ELSE IF overflow_checks /\ output_offset > I32_MAX - 8
                 THEN Panicked(OverflowMessage)
                 ELSE LET second == to_document_node(output.value,
                                       <<NodeInput_node(output_node_id, 0)>>,
                                       DocumentNodeMetadata_position(
                                           <<wrapping_add(output_offset, 8), 4>>))
                      IN  IF second.status = "panic" THEN second
                          ELSE Returned(push_node(push_node(network, first.value, FALSE),
                                                  second.value, FALSE))

new_text_network(catalog, text, font, size) ==
    LET missing == FirstMissing(catalog,
                      <<<<TextName, "Text node does not exist">>,
                        <<TransformName, "Transform node does not exist">>,
                        <<FillName, "Fill node does not exist">>,
                        <<StrokeName, "Stroke node does not exist">>,
                        <<OutputName, "Output node does not exist">>>>)
        text_generator == resolve_in(catalog, TextName).value
        transform == resolve_in(catalog, TransformName).value
        fill == resolve_in(catalog, FillName).value
        stroke == resolve_in(catalog, StrokeName).value
        output == resolve_in(catalog, OutputName).value
        network == NodeNetwork(<<0>>, <<>>, <<>>)
        generator == to_document_node(text_generator,
                        <<NodeInput_Network("concrete!(WasmEditorApi)"),
                          NodeInput_value(TaggedValue("String", text), FALSE),
                          NodeInput_value(TaggedValue("Font", font), FALSE),
                          NodeInput_value(TaggedValue("F64", size), FALSE)>>,
                        DocumentNodeMetadata_position(<<0, 4>>))
        first == push_node(network, generator.value, FALSE)
        second == push_node(first,
                    to_document_node_default_inputs(transform, <<None>>, DefaultMetadata).value, TRUE)
        third == push_node(second,
                    to_document_node_default_inputs(fill, <<None>>, DefaultMetadata).value, TRUE)
        fourth == push_node(third,
                    to_document_node_default_inputs(stroke, <<None>>, DefaultMetadata).value, TRUE)
    IN  IF missing # "" THEN Panicked(missing)
        ELSE IF generator.status = "panic" THEN generator
        ELSE Returned(push_node(fourth,
                    to_document_node_default_inputs(output, <<None>>, DefaultMetadata).value, TRUE))

\* Arguments of new_image_network and new_text_network, as callers pass them.
OutputOffsets == {0, -8, I32_MAX - 8, I32_MAX}
OutputNodeIds == {0, 1}
Texts == {"hello", ""}
Fonts == {"Font::new(DEFAULT_FONT_FAMILY.into(), DEFAULT_FONT_STYLE.into())"}
Sizes == {"24.", "0."}

\* Subpath lists a caller passes, as written at the call.
SubpathLists == {"vec![]", "vec![Subpath::new_rect(DVec2::ZERO, DVec2::ONE)]"}

---------------------------------------------------------------------------
(* Arguments callers pass.                                                 *)

FeatureSets == SUBSET {"gpu", "quantization"}

\* Bindings a caller supplies: a literal, a node reference, a free input.
SuppliedPool ==
    <<NodeInput_value(TaggedValue("F32", "1."), FALSE),
      NodeInput_node(0, 0),
      NodeInput_Network("concrete!(WasmEditorApi)")>>

\* The k-long sequence that cycles through the pool starting at offset p.
SuppliedSeq(p, k) == [i \in 1..k |-> SuppliedPool[((i + p) % Len(SuppliedPool)) + 1]]

SuppliedInputs(n) ==
    {SuppliedSeq(p, k) : p \in 0..(Len(SuppliedPool) - 1), k \in 0..(n + MaxExtra)}

\* Overrides: the same sequences with every third entry None.
OverrideSeq(p, k) ==
    [i \in 1..k |-> IF (i + p) % Len(SuppliedPool) = 0 THEN None ELSE Some(SuppliedSeq(p, k)[i])]

SuppliedOverrides(n) ==
    {OverrideSeq(p, k) : p \in 0..(Len(SuppliedPool) - 1), k \in 0..(n + MaxExtra)}

SuppliedMetadata == {DefaultMetadata, DocumentNodeMetadata_position(<<8, 4>>)}

ToLower(s) == [i \in 1..Len(s) |-> to_ascii_lowercase(s[i])]
ToUpper(s) == [i \in 1..Len(s) |-> to_ascii_uppercase(s[i])]

\* Names asked of the registry: every name of the full catalog, and for each
\* its case variants, the name padded with a blank, and its proper prefixes
\* by one character.
QueryNames ==
    UNION {{n, ToLower(n), ToUpper(n), n \o <<" ">>, <<" ">> \o n, SubSeq(n, 1, Len(n) - 1)} :
              n \in {all_static_nodes[i].name : i \in 1..Len(all_static_nodes)}}

Threads == 1..NumThreads
IdleThreads == [t \in Threads |-> "idle"]
NoThreadCalls == [t \in Threads |-> NoCall]
NoThreadRets == [t \in Threads |-> NoRet]

---------------------------------------------------------------------------
(* Spec: one caller using the registry and instantiating nodes.            *)

Init ==
    /\ features \in FeatureSets
    /\ cell = UninitCell
    /\ builds = 0
    /\ call = NoCall
    /\ ret = NoRet
    /\ tpc = IdleThreads
    /\ top = NoThreadCalls
    /\ tret = NoThreadRets
    /\ fsm_state = Ready

\* Every access of DOCUMENT_NODE_TYPES dereferences the Lazy.
Deref ==
    /\ cell' = ForcedCell(cell, features)
    /\ builds' = ForcedBuilds(cell, builds)

ResolveDocumentNodeType ==
    \E name \in QueryNames :
        /\ call = NoCall
        /\ Deref
        /\ call' = [op |-> "resolve_document_node_type", name |-> name]
        /\ ret' = Returned(resolve_in(cell'.value, name))
        /\ UNCHANGED <<fsm_state, features, tpc, top, tret>>

CollectNodeTypes ==
    /\ call = NoCall
    /\ Deref
    /\ call' = [op |-> "collect_node_types"]
    /\ ret' = Returned(collect_in(cell'.value))
    /\ UNCHANGED <<fsm_state, features, tpc, top, tret>>

ToDocumentNode ==
    /\ call = NoCall
    /\ Deref
    /\ \E i \in 1..Len(cell'.value) :
         \E inputs \in SuppliedInputs(Len(cell'.value[i].inputs)), metadata \in SuppliedMetadata :
            /\ call' = [op |-> "to_document_node", self |-> cell'.value[i],
                        inputs |-> inputs, metadata |-> metadata]
            /\ ret' = to_document_node(cell'.value[i], inputs, metadata)
    /\ UNCHANGED <<fsm_state, features, tpc, top, tret>>

ToDocumentNodeDefaultInputs ==
    /\ call = NoCall
    /\ Deref
    /\ \E i \in 1..Len(cell'.value) :
         \E input_override \in SuppliedOverrides(Len(cell'.value[i].inputs)),
            metadata \in SuppliedMetadata :
            /\ call' = [op |-> "to_document_node_default_inputs", self |-> cell'.value[i],
                        input_override |-> input_override, metadata |-> metadata]
            /\ ret' = to_document_node_default_inputs(cell'.value[i], input_override, metadata)
    /\ UNCHANGED <<fsm_state, features, tpc, top, tret>>

NewVectorNetwork ==
    /\ call = NoCall
    /\ Deref
    /\ \E subpaths \in SubpathLists :
         /\ call' = [op |-> "new_vector_network", subpaths |-> subpaths]
         /\ ret' = new_vector_network(cell'.value, subpaths)
    /\ UNCHANGED <<fsm_state, features, tpc, top, tret>>

NewImageNetwork ==
    /\ call = NoCall
    /\ Deref
    /\ \E output_offset \in OutputOffsets, output_node_id \in OutputNodeIds,
          overflow_checks \in BOOLEAN :
         /\ call' = [op |-> "new_image_network", output_offset |-> output_offset,
                     output_node_id |-> output_node_id, overflow_checks |-> overflow_checks]
         /\ ret' = new_image_network(cell'.value, output_offset, output_node_id,
                                     overflow_checks)
    /\ UNCHANGED <<fsm_state, features, tpc, top, tret>>

NewTextNetwork ==
    /\ call = NoCall
    /\ Deref
    /\ \E text \in Texts, font \in Fonts, size \in Sizes :
         /\ call' = [op |-> "new_text_network", text |-> text, font |-> font, size |-> size]
         /\ ret' = new_text_network(cell'.value, text, font, size)
    /\ UNCHANGED <<fsm_state, features, tpc, top, tret>>

\* The caller takes the result; the catalog stays as it is.
Return ==
    /\ call # NoCall
    /\ call' = NoCall
    /\ ret' = NoRet
    /\ UNCHANGED <<fsm_state, features, cell, builds, tpc, top, tret>>

Next ==
    \/ ResolveDocumentNodeType
    \/ CollectNodeTypes
    \/ ToDocumentNode
    \/ ToDocumentNodeDefaultInputs
    \/ NewVectorNetwork
    \/ NewImageNetwork
    \/ NewTextNetwork
    \/ Return

Spec == Init /\ [][Next]_vars


---------------------------------------------------------------------------
(* NodeNetwork and flattening.                                             *)

NodeIds(network) == DOMAIN network.nodes

\* Stride of the ids given to the nodes of an inlined network.
IdStride == 8

\* The id an inner node gets when the network of node `outer` is inlined:
\* distinct from every id below IdStride and from every other merged id.
merge_ids(outer, inner) == (outer + 1) * IdStride + inner

IsNetworkInput(input) == input.kind = "Network"

\* The positions of a node's inputs that are free inputs, in slot order.
RECURSIVE NetworkSlots(_)
NetworkSlots(inputs) ==
    IF inputs = <<>> THEN <<>>
    ELSE LET front == NetworkSlots(SubSeq(inputs, 1, Len(inputs) - 1))
         IN  IF IsNetworkInput(inputs[Len(inputs)]) THEN Append(front, Len(inputs)) ELSE front

\* How many of the first i entries of a sequence equal x.
CountUpTo(seq, i, x) == Cardinality({j \in 1..i : seq[j] = x})

\* A reference inside the network of node `id`, renamed with the network.
RemapInput(input, id) ==
    IF input.kind = "Node" THEN [input EXCEPT !.node_id = merge_ids(id, @)] ELSE input

\* NodeNetwork::map_ids on the network of node `id`.
map_ids(network, id) ==
    LET f(k) == merge_ids(id, k)
    IN  NodeNetwork(
            [i \in DOMAIN network.inputs |-> f(network.inputs[i])],
            [i \in DOMAIN network.outputs |-> [network.outputs[i] EXCEPT !.node_id = f(@)]],
            [m \in {f(k) : k \in NodeIds(network)} |->
                LET k == CHOOSE k \in NodeIds(network) : f(k) = m
                    n == network.nodes[k]
                IN  [n EXCEPT !.inputs = [s \in DOMAIN n.inputs |-> RemapInput(n.inputs[s], id)]]])

\* The inputs of inner node `t` once the bindings of the replaced node have
\* been substituted for the free inputs the inner network's input list
\* hands to `t`: the j-th entry naming `t` fills the j-th free slot of `t`.
SubstitutedInputs(t, tnode, inner_inputs, bindings) ==
    LET slots == NetworkSlots(tnode.inputs)
        used  == IF Len(bindings) < Len(inner_inputs) THEN Len(bindings) ELSE Len(inner_inputs)
        Entry(s) == {i \in 1..used :
                        /\ inner_inputs[i] = t
                        /\ CountUpTo(inner_inputs, i, t) <= Len(slots)
                        /\ slots[CountUpTo(inner_inputs, i, t)] = s}
    IN  [s \in DOMAIN tnode.inputs |->
            IF Entry(s) # {} THEN bindings[CHOOSE i \in Entry(s) : TRUE] ELSE tnode.inputs[s]]

\* A reference to output k of the replaced node, redirected to the inner
\* node that produces that output.
RedirectedInput(input, id, inner_outputs) ==
    IF input.kind = "Node" /\ input.node_id = id /\ input.output_index < Len(inner_outputs)
    THEN [input EXCEPT !.node_id = inner_outputs[input.output_index + 1].node_id,
                       !.output_index = inner_outputs[input.output_index + 1].node_output_index]
    ELSE input

RedirectedOutput(output, id, inner_outputs) ==
    IF output.node_id = id /\ output.node_output_index < Len(inner_outputs)
    THEN inner_outputs[output.node_output_index + 1]
    ELSE output

\* An entry of the free-input list that named the replaced node names the
\* inner node that now holds the free input.
RedirectedFreeInput(inputs, i, id, bindings, inner_inputs) ==
    LET rank == CountUpTo(inputs, i, id)
        free == NetworkSlots(bindings)
    IN  IF inputs[i] = id /\ rank <= Len(free) /\ free[rank] <= Len(inner_inputs)
        THEN inner_inputs[free[rank]]
        ELSE inputs[i]

\* One level of inlining of node `id`, whose implementation is a network.
inline(network, id) ==
    LET node  == network.nodes[id]
        inner == map_ids(node.implementation.network, id)
        kept  == NodeIds(network) \ {id}
    IN  NodeNetwork(
            [i \in DOMAIN network.inputs |->
                RedirectedFreeInput(network.inputs, i, id, node.inputs, inner.inputs)],
            [i \in DOMAIN network.outputs |-> RedirectedOutput(network.outputs[i], id, inner.outputs)],
            [m \in kept \cup NodeIds(inner) |->
                IF m \in NodeIds(inner)
                THEN [inner.nodes[m] EXCEPT
                        !.inputs = SubstitutedInputs(m, inner.nodes[m], inner.inputs, node.inputs)]
                ELSE [network.nodes[m] EXCEPT
                        !.inputs = [s \in DOMAIN @ |-> RedirectedInput(@[s], id, inner.outputs)]]])

SetToSeq(S) ==
    CHOOSE seq \in [1..Cardinality(S) -> S] : \A i, j \in 1..Cardinality(S) : i < j => seq[i] < seq[j]

\* NodeNetwork::flatten: node `id`, if its implementation is a network, is
\* replaced by the nodes of that network, and the nodes brought in are
\* flattened in turn.
RECURSIVE flatten(_, _)
RECURSIVE flatten_each(_, _)
flatten(network, id) ==
    IF id \notin NodeIds(network) THEN network
    ELSE IF network.nodes[id].implementation.kind # "Network" THEN network
    ELSE LET inlined == inline(network, id)
             new_nodes == {merge_ids(id, k) : k \in NodeIds(network.nodes[id].implementation.network)}
         IN  flatten_each(inlined, SetToSeq(new_nodes))

flatten_each(network, ids) ==
    IF ids = <<>> THEN network ELSE flatten_each(flatten(network, Head(ids)), Tail(ids))


---------------------------------------------------------------------------
(* wrap_network_in_scope.                                                  *)

\* NodeNetwork::generate_node_paths: every node without a path gets the
\* prefix extended by its id, nested networks included.
RECURSIVE generate_node_paths(_, _)
generate_node_paths(network, prefix) ==
    [network EXCEPT !.nodes =
        [id \in DOMAIN @ |->
            LET node == @[id]
                new_path == Append(prefix, id)
                impl == IF node.implementation.kind = "Network"
                        THEN NetworkImpl(generate_node_paths(node.implementation.network, new_path))
                        ELSE node.implementation
            IN  [node EXCEPT !.implementation = impl,
                             !.path = IF node.path.some THEN node.path ELSE SomePath(new_path)]]]

\* Variant of flatten_pass: only the first of the collected ids is flattened.
flatten_pass_first_only(network, node_ids) ==
    IF node_ids = <<>> THEN network ELSE flatten(network, Head(node_ids))

\* The flatten pass: one flatten call per id collected before the pass, in
\* the order the map's keys were iterated.
flatten_pass(network, node_ids) == flatten_each(network, node_ids)

\* The free-input bindings met when the nodes are visited in `scan` order
\* and the inputs of each node in slot order: <<node id, binding>> pairs.
RECURSIVE ScanBindings(_, _)
ScanBindings(network, scan) ==
    IF scan = <<>> THEN <<>>
    ELSE LET id == Head(scan)
             node == network.nodes[id]
             slots == NetworkSlots(node.inputs)
         IN  [i \in 1..Len(slots) |-> [id |-> id, input |-> node.inputs[slots[i]]]]
                 \o ScanBindings(network, Tail(scan))

ScopeTypeMessage == "Networks wrapped in scope must have the same input type"

BeginScopeName == <<"B","e","g","i","n"," ","S","c","o","p","e">>
EndScopeName == <<"E","n","d"," ","S","c","o","p","e">>
ScopeName == <<"S","c","o","p","e">>

\* Variant of scope_wrapper: the inner node is given a single input however
\* many free-input bindings the network has.
scope_wrapper_single_binding(catalog, network, len, input_type) ==
    LET inner_network == DocumentNode(ScopeName, <<NodeInput_node(0, 1)>>,
                                      NetworkImpl(network), DefaultMetadata)
        begin == to_document_node(resolve_in(catalog, BeginScopeName).value, <<input_type>>,
                                  DefaultMetadata)
        end == to_document_node(resolve_in(catalog, EndScopeName).value,
                                <<NodeInput_node(0, 0), NodeInput_node(1, 0)>>, DefaultMetadata)
    IN  Returned(NodeNetwork(<<0>>, <<NodeOutput_new(2, 0)>>,
                    (0 :> begin.value) @@ (1 :> inner_network) @@ (2 :> end.value)))

\* The three-node wrapper around the flattened network.
scope_wrapper(catalog, network, len, input_type) ==
    LET inner_network == DocumentNode(ScopeName, [i \in 1..len |-> NodeInput_node(0, 1)],
                                      NetworkImpl(network), DefaultMetadata)
        begin_type == resolve_in(catalog, BeginScopeName)
        end_type == resolve_in(catalog, EndScopeName)
    IN  IF ~begin_type.some THEN Panicked("Begin Scope node type not found")
        ELSE LET begin == to_document_node(begin_type.value, <<input_type>>, DefaultMetadata)
             IN  IF begin.status = "panic" THEN begin
                 ELSE IF ~end_type.some THEN Panicked("End Scope node type not found")
                 ELSE LET end == to_document_node(end_type.value,
                                     <<NodeInput_node(0, 0), NodeInput_node(1, 0)>>, DefaultMetadata)
                      IN  IF end.status = "panic" THEN end
                          ELSE Returned(NodeNetwork(<<0>>, <<NodeOutput_new(2, 0)>>,
                                   (0 :> begin.value) @@ (1 :> inner_network) @@ (2 :> end.value)))

\* Variant of scan_result: the type check is skipped.
scan_result_unchecked(bindings) ==
    Returned([i \in 1..Len(bindings) |-> bindings[i].id])

\* The scan for free inputs: the ids of the consuming nodes, one per
\* binding, unless two bindings differ.
scan_result(bindings) ==
    IF \E i \in 1..Len(bindings) : bindings[i].input # bindings[1].input
    THEN Panicked(ScopeTypeMessage)
    ELSE Returned([i \in 1..Len(bindings) |-> bindings[i].id])

\* Variant of with_network_inputs: the network keeps the free-input list it
\* came with.
with_stale_inputs(flattened, network_inputs) == flattened

\* network.inputs = network_inputs
with_network_inputs(flattened, network_inputs) == [flattened EXCEPT !.inputs = network_inputs]

\* Variant of needs_wrapping: a single free input is not wrapped.
needs_wrapping_above_one(len) == len > 1

\* If the network has no inputs, it does not need to be wrapped in a scope.
needs_wrapping(len) == len # 0

\* wrap_network_in_scope, with the catalog as built and the two iteration
\* orders of the node map: of its keys before the flatten pass (node_ids), and
\* of its entries in the scan for free inputs (scan).
wrap_network_in_scope(catalog, network, node_ids, scan) ==
    LET flattened == flatten_pass(generate_node_paths(network, <<>>), node_ids)
        bindings == ScanBindings(flattened, scan)
        scanned == scan_result(bindings)
    IN  IF scanned.status = "panic" THEN scanned
        ELSE LET len == Len(scanned.value)
                 inner == with_network_inputs(flattened, scanned.value)
             IN  IF ~needs_wrapping(len) THEN Returned(inner)
                 ELSE scope_wrapper(catalog, inner, len, bindings[1].input)


---------------------------------------------------------------------------
(* Document networks handed to wrap_network_in_scope.                      *)

TyEditorApi == "concrete!(WasmEditorApi)"
TyImageFrame == "concrete!(ImageFrame<Color>)"

Lit == NodeInput_value(TaggedValue("F32", "0."), FALSE)
Free(ty) == NodeInput_Network(ty)

IdNode == Unresolved("graphene_core::ops::IdNode")
NodeName == <<"N","o","d","e">>

\* Input lists of primitive nodes.  The first two are the plain ones.
ProtoSeeds ==
    << <<>>,
       <<Free(TyEditorApi)>>,
       <<Free(TyImageFrame)>>,
       <<Lit>>,
       <<Free(TyEditorApi), Free(TyEditorApi)>>,
       <<Free(TyEditorApi), Lit, Free(TyImageFrame)>> >>
PlainSeeds == 1..2

\* The free-input list that matches the bindings of the nodes: the consuming
\* node once per binding, by ascending id.
DerivedInputs(nodes) ==
    LET bindings == ScanBindings([nodes |-> nodes], SetToSeq(DOMAIN nodes))
    IN  [i \in 1..Len(bindings) |-> bindings[i].id]

Primitive(inputs) == DocumentNode(NodeName, inputs, IdNode, DefaultMetadata)

NetworkOf(nodes, output_id) ==
    NodeNetwork(DerivedInputs(nodes), <<NodeOutput_new(output_id, 0)>>, nodes)

\* Networks that nodes wrap: no free input; one; two of different types on
\* one node (as in "Load Image"); two consuming nodes (as in "Draw Canvas").
InnerSeeds ==
    << NetworkOf((0 :> Primitive(<<Lit>>)), 0),
       NetworkOf((0 :> Primitive(<<Free(TyEditorApi)>>)), 0),
       NetworkOf((0 :> Primitive(<<Free(TyEditorApi), Free(TyImageFrame)>>)), 0),
       NetworkOf((0 :> Primitive(<<Free(TyEditorApi)>>))
                 @@ (1 :> Primitive(<<NodeInput_node(0, 0), Free(TyEditorApi)>>)), 1) >>

\* The free input that entry i of a network's free-input list stands for.
FreeInputAt(network, i) ==
    LET id == network.inputs[i]
        node == network.nodes[id]
    IN  node.inputs[NetworkSlots(node.inputs)[CountUpTo(network.inputs, i, id)]]

\* A node wrapping `inner`: in mode "forward" it passes its own free inputs
\* on to the inner network, in mode "bind" it binds them all to `bound`.
Nesting(inner, mode, bound) ==
    DocumentNode(NodeName,
                 [i \in 1..Len(inner.inputs) |->
                     IF mode = "forward" THEN FreeInputAt(inner, i) ELSE bound],
                 NetworkImpl(inner), DefaultMetadata)

\* The network `depth` levels of nesting above inner seed `seed`.
RECURSIVE Tower(_, _, _)
Tower(seed, depth, mode) ==
    IF depth = 0 THEN InnerSeeds[seed]
    ELSE NetworkOf((0 :> Nesting(Tower(seed, depth - 1, mode), mode, Lit)), 0)

NodeChoice(kind, seed, depth, mode) == [kind |-> kind, seed |-> seed, depth |-> depth, mode |-> mode]

PlainChoices == {NodeChoice("proto", s, 0, "none") : s \in PlainSeeds}
RichChoices ==
    {NodeChoice("proto", s, 0, "none") : s \in 1..Len(ProtoSeeds)}
    \cup {NodeChoice("nested", s, d, m) :
            s \in 1..Len(InnerSeeds), d \in 1..MaxDepth, m \in {"forward", "bind"}}

\* The node at id j for a choice; a node after the first refers to the one
\* before it.
MakeNode(j, choice) ==
    LET previous == NodeInput_node(j - 1, 0)
    IN  IF choice.kind = "proto"
        THEN Primitive((IF j > 0 THEN <<previous>> ELSE <<>>) \o ProtoSeeds[choice.seed])
        ELSE Nesting(Tower(choice.seed, choice.depth - 1, choice.mode), choice.mode,
                     IF j > 0 THEN previous ELSE Lit)

\* Networks of up to MaxNodes nodes (ids 0, 1, ...): one node is any of the
\* rich choices, the others are plain.  The free-input list is the one that
\* matches the bindings, or [0] as the network constructors set it.
TestNodeMaps ==
    UNION {{[j \in 0..(k - 1) |-> MakeNode(j, IF j = r THEN rich ELSE plain[j])] :
                rich \in RichChoices, plain \in [0..(k - 1) -> PlainChoices]} :
           <<k, r>> \in {<<k, r>> \in (1..MaxNodes) \X (0..(MaxNodes - 1)) : r < k}}

TestNetworks ==
    UNION {{NetworkOf(nodes, Cardinality(DOMAIN nodes) - 1),
            [NetworkOf(nodes, Cardinality(DOMAIN nodes) - 1) EXCEPT !.inputs = <<0>>]} :
           nodes \in TestNodeMaps}

\* The orders in which a set of ids can be iterated.
Orders(S) ==
    {seq \in [1..Cardinality(S) -> S] : \A i, j \in 1..Cardinality(S) : i # j => seq[i] # seq[j]}

---------------------------------------------------------------------------
(* SpecWrap: one caller wrapping document networks.                        *)

WrapCall(network, node_ids, scan) ==
    [op |-> "wrap_network_in_scope", network |-> network, node_ids |-> node_ids, scan |-> scan]

\* The network as it is when the scan for free inputs starts.
BeforeScan(network, node_ids) == flatten_pass(generate_node_paths(network, <<>>), node_ids)

WrapNetworkInScope ==
    /\ call = NoCall
    /\ Deref
    /\ \E network \in TestNetworks :
         \E node_ids \in Orders(NodeIds(network)) :
            \E scan \in Orders(NodeIds(BeforeScan(network, node_ids))) :
               /\ call' = WrapCall(network, node_ids, scan)
               /\ ret' = wrap_network_in_scope(cell'.value, network, node_ids, scan)
    /\ UNCHANGED <<fsm_state, features, tpc, top, tret>>

NextWrap ==
    \/ WrapNetworkInScope
    \/ Return

\* The entries the wrapper is built from are in every build of the catalog:
\* the caller runs the build without optional features.
InitWrap == Init /\ features = {}

SpecWrap == InitWrap /\ [][NextWrap]_vars

---------------------------------------------------------------------------
(* SpecLazy: threads dereferencing DOCUMENT_NODE_TYPES concurrently.       *)

\* The Lazy while one thread runs the builder.
RunningCell == [state |-> "Running", value |-> <<>>]
InitCell(feats) == [state |-> "Init", value |-> static_nodes(feats)]

UniformName == <<"U","n","i","f","o","r","m">>

\* What the threads ask for: the listing, a name of every build, a name of
\* the gpu builds only.
ThreadQueries ==
    {[op |-> "collect_node_types", name |-> <<>>],
     [op |-> "resolve_document_node_type", name |-> BeginScopeName],
     [op |-> "resolve_document_node_type", name |-> UniformName]}

\* Variant of claim_outcome: a thread that finds the value missing builds
\* it, whether or not another thread is building it.
claim_outcome_unsynchronised(state) ==
    IF state = "Init" THEN "read" ELSE "build"

\* Where a thread goes when it finds the Lazy in `state` on the slow path:
\* it runs the builder if it is the one to move the Lazy to Running, waits
\* while another thread runs it, reads once the value is there.
claim_outcome(state) ==
    CASE state = "Uninit" -> "build"
      [] state = "Running" -> "wait"
      [] OTHER -> "read"

\* What a query returns, given the catalog the thread sees.
Answer(query, catalog) ==
    IF query.op = "collect_node_types" THEN Returned(collect_in(catalog))
    ELSE Returned(resolve_in(catalog, query.name))

Enter(t) ==
    /\ tpc[t] = "idle"
    /\ \E query \in ThreadQueries : top' = [top EXCEPT ![t] = query]
    /\ tpc' = [tpc EXCEPT ![t] = "check"]
    /\ UNCHANGED <<fsm_state, features, cell, builds, call, ret, tret>>

\* Fast path: the value is there.
Check(t) ==
    /\ tpc[t] = "check"
    /\ tpc' = [tpc EXCEPT ![t] = IF cell.state = "Init" THEN "read" ELSE "claim"]
    /\ UNCHANGED <<fsm_state, features, cell, builds, call, ret, top, tret>>

Claim(t) ==
    /\ tpc[t] = "claim"
    /\ tpc' = [tpc EXCEPT ![t] = claim_outcome(cell.state)]
    /\ cell' = IF cell.state = "Uninit" THEN RunningCell ELSE cell
    /\ UNCHANGED <<fsm_state, features, builds, call, ret, top, tret>>

\* The thread runs static_nodes and publishes the value.
Build(t) ==
    /\ tpc[t] = "build"
    /\ cell' = InitCell(features)
    /\ builds' = builds + 1
    /\ tpc' = [tpc EXCEPT ![t] = "read"]
    /\ UNCHANGED <<fsm_state, features, call, ret, top, tret>>

Wait(t) ==
    /\ tpc[t] = "wait"
    /\ cell.state = "Init"
    /\ tpc' = [tpc EXCEPT ![t] = "read"]
    /\ UNCHANGED <<fsm_state, features, cell, builds, call, ret, top, tret>>

Read(t) ==
    /\ tpc[t] = "read"
    /\ tret' = [tret EXCEPT ![t] = Answer(top[t], cell.value)]
    /\ tpc' = [tpc EXCEPT ![t] = "done"]
    /\ UNCHANGED <<fsm_state, features, cell, builds, call, ret, top>>

Leave(t) ==
    /\ tpc[t] = "done"
    /\ tpc' = [tpc EXCEPT ![t] = "idle"]
    /\ top' = [top EXCEPT ![t] = NoCall]
    /\ tret' = [tret EXCEPT ![t] = NoRet]
    /\ UNCHANGED <<fsm_state, features, cell, builds, call, ret>>

NextLazy ==
    \E t \in Threads :
        \/ Enter(t)
        \/ Check(t)
        \/ Claim(t)
        \/ Build(t)
        \/ Wait(t)
        \/ Read(t)
        \/ Leave(t)

SpecLazy == Init /\ [][NextLazy]_vars

---------------------------------------------------------------------------
(* The renderer: glam and Quad arithmetic.  Coordinates are integers, the  *)
(* finite values an f64 holds exactly.                                     *)

DVec2(x, y) == <<x, y>>

\* DAffine2: matrix2 is <<x_axis.x, x_axis.y, y_axis.x, y_axis.y>>.
DAffine2(matrix2, translation) == [matrix2 |-> matrix2, translation |-> translation]
DAffine2_IDENTITY == DAffine2(<<1, 0, 0, 1>>, <<0, 0>>)
DMat2_ZERO == <<0, 0, 0, 0>>

mul_vec2(m, v) == <<m[1] * v[1] + m[3] * v[2], m[2] * v[1] + m[4] * v[2]>>

\* DAffine2 * DAffine2
mul(a, b) ==
    LET x_axis == mul_vec2(a.matrix2, <<b.matrix2[1], b.matrix2[2]>>)
        y_axis == mul_vec2(a.matrix2, <<b.matrix2[3], b.matrix2[4]>>)
        moved == mul_vec2(a.matrix2, b.translation)
    IN  DAffine2(<<x_axis[1], x_axis[2], y_axis[1], y_axis[2]>>,
                 <<moved[1] + a.translation[1], moved[2] + a.translation[2]>>)

transform_point2(t, p) ==
    LET moved == mul_vec2(t.matrix2, p)
    IN  <<moved[1] + t.translation[1], moved[2] + t.translation[2]>>

to_cols_array(t) ==
    <<t.matrix2[1], t.matrix2[2], t.matrix2[3], t.matrix2[4], t.translation[1], t.translation[2]>>

MinOf(S) == CHOOSE x \in S : \A y \in S : x <= y
MaxOf(S) == CHOOSE x \in S : \A y \in S : y <= x

\* The axis-aligned box <<min, max>> of a non-empty sequence of points.
BoxOf(points) ==
    << <<MinOf({points[i][1] : i \in DOMAIN points}), MinOf({points[i][2] : i \in DOMAIN points})>>,
       <<MaxOf({points[i][1] : i \in DOMAIN points}), MaxOf({points[i][2] : i \in DOMAIN points})>> >>

\* Quad::from_box
from_box(box) ==
    <<box[1], <<box[2][1], box[1][2]>>, box[2], <<box[1][1], box[2][2]>>>>

\* DAffine2 * Quad
mul_quad(t, quad) == [i \in DOMAIN quad |-> transform_point2(t, quad[i])]

\* Quad::bounding_box
Quad_bounding_box(quad) == BoxOf(quad)

\* Variant of combine_bounds: the lower corner of the first box is kept.
combine_bounds_first_corner(a, b) ==
    << a[1], <<MaxOf({a[2][1], b[2][1]}), MaxOf({a[2][2], b[2][2]})>> >>

\* Quad::combine_bounds
combine_bounds(a, b) ==
    << <<MinOf({a[1][1], b[1][1]}), MinOf({a[1][2], b[1][2]})>>,
       <<MaxOf({a[2][1], b[2][1]}), MaxOf({a[2][2], b[2][2]})>> >>

---------------------------------------------------------------------------
(* Formatting of numbers.                                                  *)

DigitChars == <<"0", "1", "2", "3", "4", "5", "6", "7", "8", "9">>

RECURSIVE nat_to_string(_)
nat_to_string(n) ==
    IF n < 10 THEN DigitChars[n + 1]
    ELSE nat_to_string(n \div 10) \o DigitChars[(n % 10) + 1]

\* to_string / Display of an integer-valued number.
to_string(n) == IF n < 0 THEN "-" \o nat_to_string(-n) ELSE nat_to_string(n)

RECURSIVE JoinItems(_, _)
JoinItems(items, index) ==
    IF index > Len(items) THEN ""
    ELSE to_string(items[index]) \o (IF index # Len(items) THEN ", " ELSE "")
            \o JoinItems(items, index + 1)

format_transform_matrix(transform) ==
    "matrix(" \o JoinItems(to_cols_array(transform), 1) \o ")"

---------------------------------------------------------------------------
(* SvgSegment, SvgSegmentList, SvgRender, SvgRenderAttrs.                  *)

SvgSegment_Slice(x) == [kind |-> "Slice", text |-> x, id |-> 0]
SvgSegment_String(x) == [kind |-> "String", text |-> x, id |-> 0]
SvgSegment_BlobUrl(id) == [kind |-> "BlobUrl", text |-> "", id |-> id]

BlobPlaceholder == "<!-- Blob url not yet loaded -->"

SegmentText(segment) == IF segment.kind = "BlobUrl" THEN BlobPlaceholder ELSE segment.text

\* Display for SvgSegmentList: the texts of segments lo..hi, in order.
RECURSIVE fmt_range(_, _, _)
fmt_range(segments, lo, hi) ==
    IF lo > hi THEN ""
    ELSE IF lo = hi THEN SegmentText(segments[lo])
    ELSE LET mid == (lo + hi) \div 2
         IN  fmt_range(segments, lo, mid) \o fmt_range(segments, mid + 1, hi)

fmt(segments) == fmt_range(segments, 1, Len(segments))

SvgRender_new ==
    [svg |-> <<>>, svg_defs |-> "", transform |-> DAffine2_IDENTITY, image_data |-> <<>>,
     indent |-> 0]

\* Several pushes in a row.
extend(render, values) == [render EXCEPT !.svg = @ \o values]

push(render, value) == extend(render, <<value>>)

RECURSIVE repeat(_, _)
repeat(text, n) == IF n = 0 THEN "" ELSE text \o repeat(text, n - 1)

IndentSegments(render) ==
    <<SvgSegment_Slice("\n"), SvgSegment_String(repeat("\t", render.indent))>>

indent(render) == extend(render, IndentSegments(render))

\* SvgRenderAttrs::push(name, value), as data: the attributes closure of a
\* tag is the sequence of its pushes.
Attr(name, value) == [name |-> name, value |-> value]

\* push_val(value): the segment as it is; an attribute with an empty name.
PushVal(value) == [name |-> "", value |-> value]

\* What push_complex (or push_val) appends for one attribute.
AttrSegments(attr) ==
    IF attr.name = "" THEN <<attr.value>>
    ELSE <<SvgSegment_Slice(" "), SvgSegment_Slice(attr.name), SvgSegment_Slice("=\""),
           attr.value, SvgSegment_Slice("\"")>>

push_complex(render, attr) == extend(render, AttrSegments(attr))

RECURSIVE AttributesSegments(_)
AttributesSegments(attrs) ==
    IF attrs = <<>> THEN <<>> ELSE AttrSegments(Head(attrs)) \o AttributesSegments(Tail(attrs))

attributes(render, attrs) == extend(render, AttributesSegments(attrs))

leaf_tag(render, name, attrs) ==
    extend(render, IndentSegments(render) \o <<SvgSegment_Slice("<"), SvgSegment_Slice(name)>>
                      \o AttributesSegments(attrs) \o <<SvgSegment_Slice("/>")>>)

\* parent_tag up to the call of `inner`: lines 54-61.
parent_tag_open(render, name, attrs) ==
    LET opened == extend(render, IndentSegments(render)
                            \o <<SvgSegment_Slice("<"), SvgSegment_Slice(name)>>
                            \o AttributesSegments(attrs) \o <<SvgSegment_Slice(">")>>)
    IN  [opened EXCEPT !.indent = @ + 1]

\* Variant of parent_tag_close: the closing tag is always written.
parent_tag_close_always_paired(render, name, length) ==
    LET back == [render EXCEPT !.indent = @ - 1]
    IN  extend(back, IndentSegments(back)
                        \o <<SvgSegment_Slice("</"), SvgSegment_Slice(name), SvgSegment_Slice(">")>>)

\* parent_tag after `inner` returned: lines 63-72.  `length` is the number
\* of segments there were when `inner` was called.
parent_tag_close(render, name, length) ==
    LET back == [render EXCEPT !.indent = @ - 1]
    IN  IF Len(back.svg) # length
        THEN extend(back, IndentSegments(back)
                        \o <<SvgSegment_Slice("</"), SvgSegment_Slice(name), SvgSegment_Slice(">")>>)
        ELSE push([back EXCEPT !.svg = SubSeq(@, 1, Len(@) - 1)], SvgSegment_Slice("/>"))

\* A child callback that only appends: the segments it pushes, in order.
push_all(render, segments) == extend(render, segments)

parent_tag(render, name, attrs, inner) ==
    LET opened == parent_tag_open(render, name, attrs)
    IN  parent_tag_close(push_all(opened, inner), name, Len(opened.svg))

---------------------------------------------------------------------------
(* Scene values (GraphicElementData) and their rendering.                  *)

VectorShape(transform, points, style) ==
    [kind |-> "VectorShape", transform |-> transform, points |-> points, style |-> style]
ImageFrame(image, transform) == [kind |-> "ImageFrame", image |-> image, transform |-> transform]
Text(text) == [kind |-> "Text", text |-> text]
GraphicGroup(children) == [kind |-> "GraphicGroup", children |-> children]
Artboard(graphic_group, location, dimensions, background, clip) ==
    [kind |-> "Artboard", graphic_group |-> graphic_group, location |-> location,
     dimensions |-> dimensions, background |-> background, clip |-> clip]

\* Outcome of a render call: the SvgRender as the call left it and the
\* identifiers generate_uuid has yet to hand out, or the panic.
Rendered(render, uuids) == [status |-> "ok", render |-> render, uuids |-> uuids]
Aborted(message) == [status |-> "panic", message |-> message]

TextRenderMessage == "not yet implemented: Render a text GraphicElementData"
TextBoundsMessage == "not yet implemented: Bounds of a text GraphicElementData"

\* VectorData::bounding_box_with_transform: the box of the anchor points
\* under the transform, None without points.
bounding_box_with_transform(vector_data, transform) ==
    IF vector_data.points = <<>> THEN None
    ELSE Some(BoxOf([i \in DOMAIN vector_data.points |->
                        transform_point2(transform, vector_data.points[i])]))

\* Subpath::subpath_to_svg for every subpath: the path data.
RECURSIVE PathData(_, _, _)
PathData(points, transform, index) ==
    IF index > Len(points) THEN ""
    ELSE LET p == transform_point2(transform, points[index])
         IN  (IF index = 1 THEN "M" ELSE "L") \o to_string(p[1]) \o "," \o to_string(p[2])
                \o PathData(points, transform, index + 1)

VectorData_render_svg(vector_data, render) ==
    leaf_tag(render, "path",
             <<Attr("class", SvgSegment_Slice("vector-data")),
               Attr("d", SvgSegment_String(PathData(vector_data.points,
                                                    mul(vector_data.transform, render.transform), 1))),
               PushVal(SvgSegment_String(vector_data.style))>>)

\* Variant of ImageFrame_render_svg: the asset is not recorded.
ImageFrame_render_svg_without_asset(image_frame, render, uuid) ==
    leaf_tag(render, "image",
             <<Attr("width", SvgSegment_String(to_string(1))),
               Attr("height", SvgSegment_String(to_string(1))),
               Attr("preserveAspectRatio", SvgSegment_Slice("none")),
               Attr("transform", SvgSegment_String(
                        format_transform_matrix(mul(image_frame.transform, render.transform)))),
               Attr("href", SvgSegment_BlobUrl(uuid))>>)

ImageFrame_render_svg(image_frame, render, uuid) ==
    LET tagged == leaf_tag(render, "image",
                    <<Attr("width", SvgSegment_String(to_string(1))),
                      Attr("height", SvgSegment_String(to_string(1))),
                      Attr("preserveAspectRatio", SvgSegment_Slice("none")),
                      Attr("transform", SvgSegment_String(
                               format_transform_matrix(mul(image_frame.transform, render.transform)))),
                      Attr("href", SvgSegment_BlobUrl(uuid))>>)
    IN  [tagged EXCEPT !.image_data = Append(@, <<uuid, image_frame.image>>)]

IMin(a, b) == IF a <= b THEN a ELSE b
IAbs(a) == IF a < 0 THEN -a ELSE a

\* The artboard's background rect and label: lines 147-170.
Artboard_background_and_label(artboard, render) ==
    LET x == IMin(artboard.location[1], artboard.location[1] + artboard.dimensions[1])
        y == IMin(artboard.location[2], artboard.location[2] + artboard.dimensions[2])
        background == leaf_tag(render, "rect",
            <<Attr("class", SvgSegment_Slice("artboard-bg")),
              Attr("fill", SvgSegment_String("#" \o artboard.background)),
              Attr("x", SvgSegment_String(to_string(x))),
              Attr("y", SvgSegment_String(to_string(y))),
              Attr("width", SvgSegment_String(to_string(IAbs(artboard.dimensions[1])))),
              Attr("height", SvgSegment_String(to_string(IAbs(artboard.dimensions[2]))))>>)
    IN  parent_tag(background, "text",
            <<Attr("class", SvgSegment_Slice("artboard-label")),
              Attr("fill", SvgSegment_Slice("white")),
              Attr("x", SvgSegment_String(to_string(x))),
              Attr("y", SvgSegment_String(to_string(y - 4))),
              Attr("font-size", SvgSegment_Slice("14px"))>>,
            <<SvgSegment_Slice("Artboard")>>)

ClipId(uuid) == "artboard-" \o to_string(uuid)

ClipPathDef(artboard, uuid) ==
    "<clipPath id=\"" \o ClipId(uuid) \o "\"><rect x=\"" \o to_string(artboard.location[1])
        \o "\" y=\"" \o to_string(artboard.location[2])
        \o "\" width=\"" \o to_string(artboard.dimensions[1])
        \o "\" height=\"" \o to_string(artboard.dimensions[2]) \o "\"/></clipPath>"

\* The contents group up to the rendering of the contents: lines 173-189.
Artboard_contents_open(artboard, render, uuid) ==
    IF artboard.clip
    THEN parent_tag_open([render EXCEPT !.svg_defs = @ \o ClipPathDef(artboard, uuid)], "g",
            <<Attr("class", SvgSegment_Slice("artboard")),
              Attr("clip-path", SvgSegment_String("url(#" \o ClipId(uuid) \o ")"))>>)
    ELSE parent_tag_open(render, "g", <<Attr("class", SvgSegment_Slice("artboard"))>>)

\* Variant of Text_render_svg: the text is skipped as an empty element.
Text_render_svg_skipped(render, uuids) == Rendered(render, uuids)

\* The Text arm of GraphicElementData::render_svg: todo!().
Text_render_svg(render, uuids) == Aborted(TextRenderMessage)

RECURSIVE render_svg(_, _, _)
RECURSIVE render_group(_, _, _)

\* GraphicGroup::render_svg: the children in list order.
render_group(children, render, uuids) ==
    IF children = <<>> THEN Rendered(render, uuids)
    ELSE LET first == render_svg(Head(children), render, uuids)
         IN  IF first.status = "panic" THEN first
             ELSE render_group(Tail(children), first.render, first.uuids)

\* GraphicElementData::render_svg.  `uuids` are the values generate_uuid
\* returns, in the order of its calls.
render_svg(element, render, uuids) ==
    CASE element.kind = "VectorShape" -> Rendered(VectorData_render_svg(element, render), uuids)
      [] element.kind = "ImageFrame" ->
            Rendered(ImageFrame_render_svg(element, render, Head(uuids)), Tail(uuids))
      [] element.kind = "Text" -> Text_render_svg(render, uuids)
      [] element.kind = "GraphicGroup" -> render_group(element.children, render, uuids)
      [] element.kind = "Artboard" ->
            LET labelled == Artboard_background_and_label(element, render)
                opened == Artboard_contents_open(element, labelled,
                                                 IF element.clip THEN Head(uuids) ELSE 0)
                contents == render_group(element.graphic_group.children, opened,
                                         IF element.clip THEN Tail(uuids) ELSE uuids)
            IN  IF contents.status = "panic" THEN contents
                ELSE Rendered(parent_tag_close(contents.render, "g", Len(opened.svg)),
                              contents.uuids)

\* Outcome of a bounding_box call.
Bounded(box) == [status |-> "ok", box |-> box]

\* Variant of ImageFrame_bounding_box: the box is given whatever the
\* linear part.
ImageFrame_bounding_box_unguarded(image_frame, transform) ==
    Some(Quad_bounding_box(mul_quad(mul(image_frame.transform, transform),
                                    from_box(<<DVec2(0, 0), DVec2(1, 1)>>))))

ImageFrame_bounding_box(image_frame, transform) ==
    LET composed == mul(image_frame.transform, transform)
    IN  IF composed.matrix2 # DMat2_ZERO
        THEN Some(Quad_bounding_box(mul_quad(composed, from_box(<<DVec2(0, 0), DVec2(1, 1)>>))))
        ELSE None

\* Variant of reduce_bounds: a child without a box erases the union so far.
RECURSIVE reduce_bounds_erasing(_, _)
reduce_bounds_erasing(boxes, acc) ==
    IF boxes = <<>> THEN acc
    ELSE reduce_bounds_erasing(Tail(boxes),
            IF ~Head(boxes).some THEN None
            ELSE IF ~acc.some THEN Head(boxes)
            ELSE Some(combine_bounds(acc.value, Head(boxes).value)))

\* filter_map(...).reduce(Quad::combine_bounds) over the children's boxes,
\* `acc` being the union so far.
RECURSIVE reduce_bounds(_, _)
reduce_bounds(boxes, acc) ==
    IF boxes = <<>> THEN acc
    ELSE reduce_bounds(Tail(boxes),
            IF ~Head(boxes).some THEN acc
            ELSE IF ~acc.some THEN Head(boxes)
            ELSE Some(combine_bounds(acc.value, Head(boxes).value)))

RECURSIVE bounding_box(_, _)

\* GraphicGroup::bounding_box
group_bounding_box(children, transform) ==
    LET each == [i \in DOMAIN children |-> bounding_box(children[i], transform)]
    IN  IF \E i \in DOMAIN each : each[i].status = "panic"
        THEN each[CHOOSE i \in DOMAIN each :
                    /\ each[i].status = "panic"
                    /\ \A j \in 1..(i - 1) : each[j].status # "panic"]
        ELSE Bounded(reduce_bounds([i \in DOMAIN each |-> each[i].box], None))

\* GraphicElementData::bounding_box
bounding_box(element, transform) ==
    CASE element.kind = "VectorShape" ->
            Bounded(bounding_box_with_transform(element, mul(element.transform, transform)))
      [] element.kind = "ImageFrame" -> Bounded(ImageFrame_bounding_box(element, transform))
      [] element.kind = "Text" -> Aborted(TextBoundsMessage)
      [] element.kind = "GraphicGroup" -> group_bounding_box(element.children, transform)
      [] element.kind = "Artboard" ->
            LET artboard_bounds == Quad_bounding_box(mul_quad(transform,
                    from_box(<<element.location,
                               <<element.location[1] + element.dimensions[1],
                                 element.location[2] + element.dimensions[2]>>>>)))
                group == group_bounding_box(element.graphic_group.children, transform)
            IN  IF group.status = "panic" THEN group
                ELSE Bounded(reduce_bounds(<<group.box, Some(artboard_bounds)>>, None))

---------------------------------------------------------------------------
(* Scenes, transforms and render contexts handed to the renderer.          *)

ZeroLinear == DAffine2(DMat2_ZERO, <<2, 3>>)
Nilpotent == DAffine2(<<0, 1, 0, 0>>, <<1, 0>>)
Stretch == DAffine2(<<2, 0, 0, 3>>, <<1, -1>>)
QuarterTurn == DAffine2(<<0, 1, -1, 0>>, <<0, 0>>)

Transforms == {DAffine2_IDENTITY, ZeroLinear, Nilpotent, Stretch, QuarterTurn}

PixelsA == "pixels-a"
PixelsB == "pixels-b"

ImageFrames == {ImageFrame(image, transform) : image \in {PixelsA, PixelsB}, transform \in Transforms}

\* The elements that fill the places of a group beside its one nested child.
Leaves ==
    {Text("hello"),
     ImageFrame(PixelsA, DAffine2_IDENTITY),
     ImageFrame(PixelsB, ZeroLinear),
     VectorShape(DAffine2_IDENTITY, <<>>, ""),
     VectorShape(Stretch, <<DVec2(0, 0), DVec2(2, 1)>>, " fill=\"none\"")}

ArtboardFrames == {<<DVec2(0, 0), DVec2(100, 100)>>, <<DVec2(5, 5), DVec2(-3, 2)>>}

RECURSIVE Scenes(_)
RECURSIVE Groups(_)

\* Groups of no, one or two children, nested up to `depth`: one child is any
\* scene of lesser depth, the other a leaf.
Groups(depth) ==
    IF depth = 0 THEN {GraphicGroup(<<>>)}
    ELSE {GraphicGroup(<<>>)}
         \cup {GraphicGroup(<<a>>) : a \in Scenes(depth - 1)}
         \cup {GraphicGroup(<<a, b>>) : a \in Scenes(depth - 1), b \in Leaves}
         \cup {GraphicGroup(<<b, a>>) : a \in Scenes(depth - 1), b \in Leaves}

Scenes(depth) ==
    IF depth = 0 THEN Leaves
    ELSE Leaves
         \cup Groups(depth)
         \cup {Artboard(group, frame[1], frame[2], "ffffffff", clip) :
                 group \in Groups(depth - 1), frame \in ArtboardFrames, clip \in BOOLEAN}

\* Flat groups of three leaves, in every order.
Triples == {GraphicGroup(<<a, b, c>>) : a, b, c \in Leaves}

TestScenes == ImageFrames \cup Triples \cup Scenes(MaxSceneDepth)

\* The number of generate_uuid calls a complete render of an element makes.
RECURSIVE UuidCalls(_)
RECURSIVE UuidCallsOfAll(_)
UuidCallsOfAll(children) ==
    IF children = <<>> THEN 0 ELSE UuidCalls(Head(children)) + UuidCallsOfAll(Tail(children))
UuidCalls(element) ==
    CASE element.kind = "ImageFrame" -> 1
      [] element.kind = "GraphicGroup" -> UuidCallsOfAll(element.children)
      [] element.kind = "Artboard" ->
            (IF element.clip THEN 1 ELSE 0) + UuidCallsOfAll(element.graphic_group.children)
      [] OTHER -> 0

\* What generate_uuid returns over n calls: distinct values, or by chance
\* the same value again.
UuidRuns(n) == {[i \in 1..n |-> seed + step * (i - 1)] : seed \in {10, 20}, step \in {0, 1}}

\* A render context in use: output, definitions and an asset are there.
UsedRender ==
    [leaf_tag(SvgRender_new, "rect", <<Attr("class", SvgSegment_Slice("first"))>>)
        EXCEPT !.svg_defs = "<linearGradient/>",
               !.transform = Stretch,
               !.image_data = <<<<10, PixelsB>>>>,
               !.indent = 1]

Renders == {SvgRender_new, UsedRender}

TagNames == {"g", "text"}
TagAttrs == {<<>>, <<Attr("class", SvgSegment_Slice("artboard"))>>}
ChildSegments == {SvgSegment_Slice(""), SvgSegment_String("x"), SvgSegment_BlobUrl(10)}
ChildOutputs ==
    {<<>>} \cup {<<a>> : a \in ChildSegments} \cup {<<a, b>> : a, b \in ChildSegments}

---------------------------------------------------------------------------
(* SpecRender: one caller rendering scenes and asking for their bounds.    *)

RenderSvg ==
    /\ call = NoCall
    /\ \E self \in TestScenes, render \in Renders :
         \E uuids \in UuidRuns(UuidCalls(self)) :
            /\ call' = [op |-> "render_svg", self |-> self, render |-> render, uuids |-> uuids]
            /\ ret' = render_svg(self, render, uuids)
    /\ UNCHANGED <<fsm_state, features, cell, builds, tpc, top, tret>>

BoundingBox ==
    /\ call = NoCall
    /\ \E self \in TestScenes, transform \in Transforms :
         /\ call' = [op |-> "bounding_box", self |-> self, transform |-> transform]
         /\ ret' = bounding_box(self, transform)
    /\ UNCHANGED <<fsm_state, features, cell, builds, tpc, top, tret>>

ParentTag ==
    /\ call = NoCall
    /\ \E render \in Renders, name \in TagNames, attrs \in TagAttrs, inner \in ChildOutputs :
         /\ call' = [op |-> "parent_tag", render |-> render, name |-> name,
                     attrs |-> attrs, inner |-> inner]
         /\ ret' = Rendered(parent_tag(render, name, attrs, inner), <<>>)
    /\ UNCHANGED <<fsm_state, features, cell, builds, tpc, top, tret>>

NextRender ==
    \/ RenderSvg
    \/ BoundingBox
    \/ ParentTag
    \/ Return

\* The renderer has no optional parts.
InitRender == Init /\ features = {}

SpecRender == InitRender /\ [][NextRender]_vars

---------------------------------------------------------------------------
(* node_properties.rs: the widgets of the properties panel.                *)

\* A String from the characters of a name.
RECURSIVE chars_to_string(_)
chars_to_string(chars) ==
    IF chars = <<>> THEN "" ELSE Head(chars) \o chars_to_string(Tail(chars))

\* Vec::get: index counts from 0.
get(items, index) == IF index + 1 \in DOMAIN items THEN Some(items[index + 1]) ELSE None

\* Indexing a Vec out of its bounds.
IndexMessage(len, index) ==
    "index out of bounds: the len is " \o to_string(len) \o " but the index is "
        \o to_string(index)

\* NodeInput::is_exposed
is_exposed(input) ==
    CASE input.kind = "Value" -> input.exposed
      [] input.kind = "Network" -> FALSE
      [] OTHER -> TRUE

\* Is the input a literal of the given tag (and, if asked, unexposed)?
IsValue(input, tag) == input.kind = "Value" /\ input.tagged_value.tag = tag
IsUnexposedValue(input, tag) == IsValue(input, tag) /\ ~input.exposed

TextLabel_new(value) == [widget |-> "TextLabel", value |-> value]
Separator_new == [widget |-> "Separator", value |-> "Unrelated"]
ParameterExposeButton_new(exposed, data_type, node_id, index) ==
    [widget |-> "ParameterExposeButton", value |-> data_type, exposed |-> exposed,
     node_id |-> node_id, input_index |-> index]
CheckboxInput_new(checked, node_id, index) ==
    [widget |-> "CheckboxInput", value |-> checked, node_id |-> node_id, input_index |-> index]
NumberInput_new(value, node_id, index) ==
    [widget |-> "NumberInput", value |-> value, node_id |-> node_id, input_index |-> index]

\* An entry of a dropdown or of a radio input: its label, and the
\* SetInputValue message its on_update sends.
EntryData_new(label, value, node_id, index) ==
    [label |-> label, value |-> value, node_id |-> node_id, input_index |-> index]
DropdownInput_new(entries, selected_index) ==
    [widget |-> "DropdownInput", value |-> "", entries |-> entries,
     selected_index |-> selected_index]
RadioInput_new(entries, selected_index) ==
    [widget |-> "RadioInput", value |-> "", entries |-> entries,
     selected_index |-> selected_index]

LayoutGroup_Row(widgets) == [group |-> "Row", widgets |-> widgets, tooltip |-> ""]
LayoutGroup_Section(name, layout) == [group |-> "Section", name |-> name, layout |-> layout]
with_tooltip(row, tooltip) == [row EXCEPT !.tooltip = tooltip]

string_properties(text) == <<LayoutGroup_Row(<<TextLabel_new(text)>>)>>

expose_widget(node_id, index, data_type, exposed) ==
    ParameterExposeButton_new(exposed, data_type, node_id, index)

BlankAssist == <<Separator_new, Separator_new, Separator_new, Separator_new>>

WidgetIndexMessage == "A widget failed to be built because its node's input index is invalid."

start_widgets(document_node, node_id, index, name, data_type, blank_assist) ==
    LET input == get(document_node.inputs, index)
    IN  IF ~input.some THEN Panicked(WidgetIndexMessage)
        ELSE Returned(<<expose_widget(node_id, index, data_type, is_exposed(input.value)),
                        Separator_new, TextLabel_new(name)>>
                      \o (IF blank_assist THEN BlankAssist ELSE <<>>))

bool_widget(document_node, node_id, index, name, blank_assist) ==
    LET widgets == start_widgets(document_node, node_id, index, name, "Boolean", blank_assist)
    IN  IF widgets.status = "panic" THEN widgets
        ELSE IF IsUnexposedValue(document_node.inputs[index + 1], "Bool")
        THEN Returned(widgets.value \o
                <<Separator_new,
                  CheckboxInput_new(document_node.inputs[index + 1].tagged_value.val,
                                    node_id, index)>>)
        ELSE widgets

number_widget(document_node, node_id, index, name, blank_assist) ==
    LET widgets == start_widgets(document_node, node_id, index, name, "Number", blank_assist)
    IN  IF widgets.status = "panic" THEN widgets
        ELSE IF \E tag \in {"F64", "U32", "F32"} :
                    IsUnexposedValue(document_node.inputs[index + 1], tag)
        THEN Returned(widgets.value \o
                <<Separator_new,
                  NumberInput_new(document_node.inputs[index + 1].tagged_value.val,
                                  node_id, index)>>)
        ELSE widgets

unknown_node_properties(document_node) ==
    string_properties("Node '" \o chars_to_string(document_node.name)
                        \o "' cannot be found in library")

no_properties == string_properties("Node has no properties")

---------------------------------------------------------------------------
(* The enums the dropdowns choose from: variants in declaration order      *)
(* (the order of `as u32`), each with its Display text.                    *)

Variant(variant, label) == [variant |-> variant, label |-> label]

RedGreenBlue ==
    <<Variant("RedGreenBlue::Red", "Red"), Variant("RedGreenBlue::Green", "Green"),
      Variant("RedGreenBlue::Blue", "Blue")>>

RelativeAbsolute ==
    <<Variant("RelativeAbsolute::Relative", "Relative"),
      Variant("RelativeAbsolute::Absolute", "Absolute")>>

SelectiveColorChoice ==
    <<Variant("SelectiveColorChoice::Reds", "Reds"),
      Variant("SelectiveColorChoice::Yellows", "Yellows"),
      Variant("SelectiveColorChoice::Greens", "Greens"),
      Variant("SelectiveColorChoice::Cyans", "Cyans"),
      Variant("SelectiveColorChoice::Blues", "Blues"),
      Variant("SelectiveColorChoice::Magentas", "Magentas"),
      Variant("SelectiveColorChoice::Whites", "Whites"),
      Variant("SelectiveColorChoice::Neutrals", "Neutrals"),
      Variant("SelectiveColorChoice::Blacks", "Blacks")>>

BlendMode ==
    <<Variant("BlendMode::Normal", "Normal"),
      Variant("BlendMode::Multiply", "Multiply"),
      Variant("BlendMode::Darken", "Darken"),
      Variant("BlendMode::ColorBurn", "Color Burn"),
      Variant("BlendMode::LinearBurn", "Linear Burn"),
      Variant("BlendMode::DarkerColor", "Darker Color"),
      Variant("BlendMode::Screen", "Screen"),
      Variant("BlendMode::Lighten", "Lighten"),
      Variant("BlendMode::ColorDodge", "Color Dodge"),
      Variant("BlendMode::LinearDodge", "Linear Dodge"),
      Variant("BlendMode::LighterColor", "Lighter Color"),
      Variant("BlendMode::Overlay", "Overlay"),
      Variant("BlendMode::SoftLight", "Soft Light"),
      Variant("BlendMode::HardLight", "Hard Light"),
      Variant("BlendMode::VividLight", "Vivid Light"),
      Variant("BlendMode::LinearLight", "Linear Light"),
      Variant("BlendMode::PinLight", "Pin Light"),
      Variant("BlendMode::HardMix", "Hard Mix"),
      Variant("BlendMode::Difference", "Difference"),
      Variant("BlendMode::Exclusion", "Exclusion"),
      Variant("BlendMode::Subtract", "Subtract"),
      Variant("BlendMode::Divide", "Divide"),
      Variant("BlendMode::Hue", "Hue"),
      Variant("BlendMode::Saturation", "Saturation"),
      Variant("BlendMode::Color", "Color"),
      Variant("BlendMode::Luminosity", "Luminosity"),
      Variant("BlendMode::Erase", "Erase"),
      Variant("BlendMode::Restore", "Restore"),
      Variant("BlendMode::MultiplyAlpha", "Multiply Alpha")>>

\* BlendMode::list(): the groups of the dropdown.
BlendMode_list ==
    <<<<"BlendMode::Normal">>,
      <<"BlendMode::Darken", "BlendMode::Multiply", "BlendMode::ColorBurn",
        "BlendMode::LinearBurn", "BlendMode::DarkerColor">>,
      <<"BlendMode::Lighten", "BlendMode::Screen", "BlendMode::ColorDodge",
        "BlendMode::LinearDodge", "BlendMode::LighterColor">>,
      <<"BlendMode::Overlay", "BlendMode::SoftLight", "BlendMode::HardLight",
        "BlendMode::VividLight", "BlendMode::LinearLight", "BlendMode::PinLight",
        "BlendMode::HardMix">>,
      <<"BlendMode::Difference", "BlendMode::Exclusion", "BlendMode::Subtract",
        "BlendMode::Divide">>,
      <<"BlendMode::Hue", "BlendMode::Saturation", "BlendMode::Color",
        "BlendMode::Luminosity">>>>

\* `variant as u32`
as_u32(enum, variant) == (CHOOSE i \in DOMAIN enum : enum[i].variant = variant) - 1

\* Display
variant_to_string(enum, variant) ==
    enum[CHOOSE i \in DOMAIN enum : enum[i].variant = variant].label

\* The entries of a widget for the variants listed, each sending its variant
\* to the input when chosen.
Entries(enum, tag, variants, node_id, index) ==
    [i \in DOMAIN variants |->
        EntryData_new(variant_to_string(enum, variants[i]), TaggedValue(tag, variants[i]),
                      node_id, index)]

---------------------------------------------------------------------------
(* The panels.                                                             *)

blend_mode(document_node, node_id, index, name, blank_assist) ==
    LET widgets == start_widgets(document_node, node_id, index, name, "General", blank_assist)
        input == document_node.inputs[index + 1]
        entries == [g \in DOMAIN BlendMode_list |->
                        Entries(BlendMode, "BlendMode", BlendMode_list[g], node_id, index)]
    IN  IF widgets.status = "panic" THEN widgets
        ELSE Returned(with_tooltip(LayoutGroup_Row(widgets.value \o
                (IF IsUnexposedValue(input, "BlendMode")
                 THEN <<Separator_new,
                        DropdownInput_new(entries, as_u32(BlendMode, input.tagged_value.val))>>
                 ELSE <<>>)), "Formula used for blending"))

blend_mode_properties(document_node, node_id) ==
    LET row == blend_mode(document_node, node_id, 0, "Blend Mode", TRUE)
    IN  IF row.status = "panic" THEN row ELSE Returned(<<row.value>>)

\* The rows of number widgets for four <<index, name>> pairs; the first
\* widget that fails to build aborts.
number_rows(document_node, node_id, pairs) ==
    LET built == [i \in DOMAIN pairs |->
                    number_widget(document_node, node_id, pairs[i][1], pairs[i][2], TRUE)]
    IN  IF \E i \in DOMAIN built : built[i].status = "panic"
        THEN built[CHOOSE i \in DOMAIN built :
                      /\ built[i].status = "panic"
                      /\ \A j \in 1..(i - 1) : built[j].status # "panic"]
        ELSE Returned([i \in DOMAIN built |-> LayoutGroup_Row(built[i].value)])

monochrome_index == 1
output_channel_index == 18

\* The match of adjust_channel_mixer_properties: the <<index, name>> of the
\* red, green, blue and constant rows.
channel_values(is_monochrome, is_output_channel) ==
    CASE is_monochrome -> <<<<2, "Red">>, <<3, "Green">>, <<4, "Blue">>, <<5, "Constant">>>>
      [] ~is_monochrome /\ is_output_channel = "RedGreenBlue::Red" ->
            <<<<6, "(Red) Red">>, <<7, "(Red) Green">>, <<8, "(Red) Blue">>,
              <<9, "(Red) Constant">>>>
      [] ~is_monochrome /\ is_output_channel = "RedGreenBlue::Green" ->
            <<<<10, "(Green) Red">>, <<11, "(Green) Green">>, <<12, "(Green) Blue">>,
              <<13, "(Green) Constant">>>>
      [] ~is_monochrome /\ is_output_channel = "RedGreenBlue::Blue" ->
            <<<<14, "(Blue) Red">>, <<15, "(Blue) Green">>, <<16, "(Blue) Blue">>,
              <<17, "(Blue) Constant">>>>

adjust_channel_mixer_properties(document_node, node_id) ==
    LET inputs == document_node.inputs
        monochrome == bool_widget(document_node, node_id, monochrome_index, "Monochrome", TRUE)
        is_monochrome ==
            IF IsValue(inputs[monochrome_index + 1], "Bool")
            THEN inputs[monochrome_index + 1].tagged_value.val = "true"
            ELSE FALSE
        choice == inputs[output_channel_index + 1]
        output_channel ==
            <<TextLabel_new("Output Channel"), Separator_new>> \o BlankAssist \o
            (IF IsUnexposedValue(choice, "RedGreenBlue")
             THEN <<RadioInput_new(
                        Entries(RedGreenBlue, "RedGreenBlue",
                                <<"RedGreenBlue::Red", "RedGreenBlue::Green",
                                  "RedGreenBlue::Blue">>, node_id, output_channel_index),
                        as_u32(RedGreenBlue, choice.tagged_value.val))>>
             ELSE <<>>)
        rows == number_rows(document_node, node_id,
                            channel_values(is_monochrome, choice.tagged_value.val))
    IN  IF monochrome.status = "panic" THEN monochrome
        ELSE IF output_channel_index + 1 \notin DOMAIN inputs
        THEN Panicked(IndexMessage(Len(inputs), output_channel_index))
        ELSE IF ~IsValue(choice, "RedGreenBlue") THEN Returned(<<>>)
        ELSE IF rows.status = "panic" THEN rows
        ELSE Returned(<<LayoutGroup_Row(monochrome.value)>>
                      \o (IF ~is_monochrome THEN <<LayoutGroup_Row(output_channel)>> ELSE <<>>)
                      \o rows.value)

colors_index == 38
mode_index == 1

\* Variant of cmyk: the table as it would stand had the descriptor gained an
\* input before "(Reds) Cyan" without the panel being updated.
cmyk_unsynchronized(colors_choice_index) ==
    LET choice == as_u32(SelectiveColorChoice, colors_choice_index)
        label == variant_to_string(SelectiveColorChoice, colors_choice_index)
        ink == <<"Cyan", "Magenta", "Yellow", "Black">>
    IN  [k \in 1..4 |-> <<4 * choice + k, "(" \o label \o ") " \o ink[k]>>]

\* The match of adjust_selective_color_properties: the <<index, name>> of
\* the cyan, magenta, yellow and black rows.
cmyk(colors_choice_index) ==
    CASE colors_choice_index = "SelectiveColorChoice::Reds" ->
            <<<<2, "(Reds) Cyan">>, <<3, "(Reds) Magenta">>, <<4, "(Reds) Yellow">>,
              <<5, "(Reds) Black">>>>
      [] colors_choice_index = "SelectiveColorChoice::Yellows" ->
            <<<<6, "(Yellows) Cyan">>, <<7, "(Yellows) Magenta">>, <<8, "(Yellows) Yellow">>,
              <<9, "(Yellows) Black">>>>
      [] colors_choice_index = "SelectiveColorChoice::Greens" ->
            <<<<10, "(Greens) Cyan">>, <<11, "(Greens) Magenta">>, <<12, "(Greens) Yellow">>,
              <<13, "(Greens) Black">>>>
      [] colors_choice_index = "SelectiveColorChoice::Cyans" ->
            <<<<14, "(Cyans) Cyan">>, <<15, "(Cyans) Magenta">>, <<16, "(Cyans) Yellow">>,
              <<17, "(Cyans) Black">>>>
      [] colors_choice_index = "SelectiveColorChoice::Blues" ->
            <<<<18, "(Blues) Cyan">>, <<19, "(Blues) Magenta">>, <<20, "(Blues) Yellow">>,
              <<21, "(Blues) Black">>>>
      [] colors_choice_index = "SelectiveColorChoice::Magentas" ->
            <<<<22, "(Magentas) Cyan">>, <<23, "(Magentas) Magenta">>,
              <<24, "(Magentas) Yellow">>, <<25, "(Magentas) Black">>>>
      [] colors_choice_index = "SelectiveColorChoice::Whites" ->
            <<<<26, "(Whites) Cyan">>, <<27, "(Whites) Magenta">>, <<28, "(Whites) Yellow">>,
              <<29, "(Whites) Black">>>>
      [] colors_choice_index = "SelectiveColorChoice::Neutrals" ->
            <<<<30, "(Neutrals) Cyan">>, <<31, "(Neutrals) Magenta">>,
              <<32, "(Neutrals) Yellow">>, <<33, "(Neutrals) Black">>>>
      [] colors_choice_index = "SelectiveColorChoice::Blacks" ->
            <<<<34, "(Blacks) Cyan">>, <<35, "(Blacks) Magenta">>, <<36, "(Blacks) Yellow">>,
              <<37, "(Blacks) Black">>>>

adjust_selective_color_properties(document_node, node_id) ==
    LET inputs == document_node.inputs
        choice == inputs[colors_index + 1]
        colors ==
            <<TextLabel_new("Colors"), Separator_new>> \o BlankAssist \o
            (IF IsUnexposedValue(choice, "SelectiveColorChoice")
             THEN <<DropdownInput_new(
                        <<Entries(SelectiveColorChoice, "SelectiveColorChoice",
                                  <<"SelectiveColorChoice::Reds", "SelectiveColorChoice::Yellows",
                                    "SelectiveColorChoice::Greens", "SelectiveColorChoice::Cyans",
                                    "SelectiveColorChoice::Blues",
                                    "SelectiveColorChoice::Magentas">>, node_id, colors_index),
                          Entries(SelectiveColorChoice, "SelectiveColorChoice",
                                  <<"SelectiveColorChoice::Whites",
                                    "SelectiveColorChoice::Neutrals",
                                    "SelectiveColorChoice::Blacks">>, node_id, colors_index)>>,
                        as_u32(SelectiveColorChoice, choice.tagged_value.val))>>
             ELSE <<>>)
        rows == number_rows(document_node, node_id, cmyk(choice.tagged_value.val))
        started == start_widgets(document_node, node_id, mode_index, "Mode", "General", TRUE)
        mode == started.value \o <<Separator_new>> \o
                (IF IsUnexposedValue(inputs[mode_index + 1], "RelativeAbsolute")
                 THEN <<RadioInput_new(
                            <<EntryData_new("Relative",
                                  TaggedValue("RelativeAbsolute", "RelativeAbsolute::Relative"),
                                  node_id, mode_index),
                              EntryData_new("Absolute",
                                  TaggedValue("RelativeAbsolute", "RelativeAbsolute::Absolute"),
                                  node_id, mode_index)>>,
                            as_u32(RelativeAbsolute, inputs[mode_index + 1].tagged_value.val))>>
                 ELSE <<>>)
    IN  IF colors_index + 1 \notin DOMAIN inputs
        THEN Panicked(IndexMessage(Len(inputs), colors_index))
        ELSE IF ~IsValue(choice, "SelectiveColorChoice") THEN Returned(<<>>)
        ELSE IF rows.status = "panic" THEN rows
        ELSE IF started.status = "panic" THEN started
        ELSE Returned(<<LayoutGroup_Row(colors)>> \o rows.value \o <<LayoutGroup_Row(mode)>>)

\* A layout the model leaves as the call that makes it.
LayoutOf(properties, document_node, node_id) ==
    <<[group |-> "Call", properties |-> properties, document_node |-> document_node,
       node_id |-> node_id]>>

\* (document_node_type.properties)(document_node, node_id, context)
call_properties(properties, document_node, node_id) ==
    CASE properties = "node_properties::adjust_channel_mixer_properties" ->
            adjust_channel_mixer_properties(document_node, node_id)
      [] properties = "node_properties::adjust_selective_color_properties" ->
            adjust_selective_color_properties(document_node, node_id)
      [] properties = "node_properties::blend_mode_properties" ->
            blend_mode_properties(document_node, node_id)
      [] properties = "node_properties::no_properties" -> Returned(no_properties)
      [] OTHER -> Returned(LayoutOf(properties, document_node, node_id))

\* Variant of generate_node_properties: a miss is unwrapped.
generate_node_properties_unwrapping(catalog, document_node, node_id) ==
    LET document_node_type == resolve_in(catalog, document_node.name)
    IN  IF ~document_node_type.some
        THEN Panicked("called Option::unwrap() on a None value")
        ELSE Returned(LayoutGroup_Section(document_node.name, <<>>))

generate_node_properties(catalog, document_node, node_id) ==
    LET name == document_node.name
        document_node_type == resolve_in(catalog, name)
        layout == IF document_node_type.some
                  THEN call_properties(document_node_type.value.properties, document_node,
                                       node_id)
                  ELSE Returned(unknown_node_properties(document_node))
    IN  IF layout.status = "panic" THEN layout
        ELSE Returned(LayoutGroup_Section(name, layout.value))

---------------------------------------------------------------------------
(* Nodes handed to the properties panel.                                   *)

ChannelMixerName == <<"C","h","a","n","n","e","l"," ","M","i","x","e","r">>
SelectiveColorName == <<"S","e","l","e","c","t","i","v","e"," ","C","o","l","o","r">>
BlendModeName == <<"B","l","e","n","d"," ","M","o","d","e">>
BlendName == <<"B","l","e","n","d">>

\* The node a descriptor gives with all its defaults.
DefaultNode(self) ==
    DocumentNode(self.name, default_inputs(self, <<>>), generate_implementation(self),
                 DefaultMetadata)

WithInput(node, index, input) == [node EXCEPT !.inputs[index + 1] = input]
Truncated(node, len) == [node EXCEPT !.inputs = SubSeq(@, 1, len)]
Renamed(node, name) == [node EXCEPT !.name = name]

\* What a document can hold at an input meant for a choice of `enum`: each
\* variant as a literal, exposed or not, a literal of another type, a node
\* reference, a free input.
ChoiceInputs(enum, tag) ==
    {NodeInput_value(TaggedValue(tag, enum[i].variant), exposed) :
        i \in DOMAIN enum, exposed \in BOOLEAN}
    \cup {NodeInput_value(TaggedValue("F32", "0."), FALSE),
          NodeInput_value(TaggedValue("None", ""), FALSE),
          NodeInput_node(0, 0),
          NodeInput_Network("concrete!(f32)")}

MonochromeInputs ==
    {NodeInput_value(TaggedValue("Bool", "false"), FALSE),
     NodeInput_value(TaggedValue("Bool", "true"), FALSE),
     NodeInput_value(TaggedValue("Bool", "true"), TRUE),
     NodeInput_node(0, 0)}

ModeInputs ==
    {NodeInput_value(TaggedValue("RelativeAbsolute", "RelativeAbsolute::Relative"), FALSE),
     NodeInput_value(TaggedValue("RelativeAbsolute", "RelativeAbsolute::Absolute"), FALSE),
     NodeInput_value(TaggedValue("RelativeAbsolute", "RelativeAbsolute::Absolute"), TRUE)}

ChannelMixerNodes(catalog) ==
    LET node == DefaultNode(resolve_in(catalog, ChannelMixerName).value)
    IN  {WithInput(WithInput(node, monochrome_index, monochrome), output_channel_index, choice) :
            monochrome \in MonochromeInputs, choice \in ChoiceInputs(RedGreenBlue, "RedGreenBlue")}
        \cup {Truncated(node, len) : len \in {0, 1, 2, output_channel_index}}

SelectiveColorNodes(catalog) ==
    LET node == DefaultNode(resolve_in(catalog, SelectiveColorName).value)
    IN  {WithInput(WithInput(node, mode_index, mode), colors_index, choice) :
            mode \in ModeInputs,
            choice \in ChoiceInputs(SelectiveColorChoice, "SelectiveColorChoice")}
        \cup {Truncated(node, len) : len \in {0, 1, colors_index}}

\* Nodes with a blend-mode input, each with the index of that input and
\* the name of its row.
BlendModeNodes(catalog) ==
    {[document_node |-> WithInput(DefaultNode(resolve_in(catalog, BlendModeName).value), 0, mode),
      index |-> 0, name |-> "Blend Mode"] : mode \in ChoiceInputs(BlendMode, "BlendMode")}
    \cup {[document_node |-> WithInput(DefaultNode(resolve_in(catalog, BlendName).value), 2, mode),
           index |-> 2, name |-> "Blend Mode"] : mode \in ChoiceInputs(BlendMode, "BlendMode")}
    \cup {[document_node |-> Truncated(DefaultNode(resolve_in(catalog, BlendModeName).value), 0),
           index |-> 0, name |-> "Blend Mode"]}

\* Names no catalog entry has.
UnknownNames ==
    {<<"N","o","p","e">>, <<>>, ToLower(ChannelMixerName), SelectiveColorName \o <<" ">>}

PanelNodes(catalog) ==
    {DefaultNode(catalog[i]) : i \in DOMAIN catalog}
    \cup {Renamed(DefaultNode(catalog[i]), name) : i \in DOMAIN catalog, name \in UnknownNames}
    \cup ChannelMixerNodes(catalog)
    \cup SelectiveColorNodes(catalog)
    \cup {n.document_node : n \in BlendModeNodes(catalog)}

PanelNodeIds == {0, 7}

---------------------------------------------------------------------------
(* SpecProps: one caller building properties panels.                       *)

GenerateNodeProperties ==
    /\ call = NoCall
    /\ Deref
    /\ \E document_node \in PanelNodes(cell'.value), node_id \in PanelNodeIds :
         /\ call' = [op |-> "generate_node_properties", document_node |-> document_node,
                     node_id |-> node_id]
         /\ ret' = generate_node_properties(cell'.value, document_node, node_id)
    /\ UNCHANGED <<fsm_state, features, tpc, top, tret>>

AdjustChannelMixerProperties ==
    /\ call = NoCall
    /\ Deref
    /\ \E document_node \in ChannelMixerNodes(cell'.value), node_id \in PanelNodeIds :
         /\ call' = [op |-> "adjust_channel_mixer_properties",
                     document_node |-> document_node, node_id |-> node_id]
         /\ ret' = adjust_channel_mixer_properties(document_node, node_id)
    /\ UNCHANGED <<fsm_state, features, tpc, top, tret>>

AdjustSelectiveColorProperties ==
    /\ call = NoCall
    /\ Deref
    /\ \E document_node \in SelectiveColorNodes(cell'.value), node_id \in PanelNodeIds :
         /\ call' = [op |-> "adjust_selective_color_properties",
                     document_node |-> document_node, node_id |-> node_id]
         /\ ret' = adjust_selective_color_properties(document_node, node_id)
    /\ UNCHANGED <<fsm_state, features, tpc, top, tret>>

BlendModeRow ==
    /\ call = NoCall
    /\ Deref
    /\ \E n \in BlendModeNodes(cell'.value), node_id \in PanelNodeIds,
          blank_assist \in BOOLEAN :
         /\ call' = [op |-> "blend_mode", document_node |-> n.document_node,
                     node_id |-> node_id, index |-> n.index, name |-> n.name,
                     blank_assist |-> blank_assist]
         /\ ret' = blend_mode(n.document_node, node_id, n.index, n.name, blank_assist)
    /\ UNCHANGED <<fsm_state, features, tpc, top, tret>>

NextProps ==
    \/ GenerateNodeProperties
    \/ AdjustChannelMixerProperties
    \/ AdjustSelectiveColorProperties
    \/ BlendModeRow
    \/ Return

SpecProps == Init /\ [][NextProps]_vars

---------------------------------------------------------------------------
(* SpecEyedropper: the eyedropper tool receiving tool messages.            *)

ToolMessages == {ToolMessage_Eyedropper(event) : event \in EyedropperToolMessage}
                    \cup {ToolMessage_Other}

\* The viewport and the pointer, inside it or outside.
Viewport == [top_left |-> <<0, 0>>, bottom_right |-> <<100, 100>>]
MousePositions == {<<10, 20>>, <<-5, 20>>}
Inputs == {[mouse |-> [position |-> position], viewport_bounds |-> Viewport] :
              position \in MousePositions}

\* The working colours.
ToolDatas == {[primary_color |-> "000000", secondary_color |-> "ffffff"],
              [primary_color |-> "ff0000", secondary_color |-> "ffffff"]}

\* The response queue the handler is given: empty, or holding a message.
Queues == {<<>>, <<[message |-> "UpdateInputHints"]>>}

\* EyedropperTool::process_message: the state transition returns is the
\* tool's state from then on.
ProcessMessage ==
    /\ call = NoCall
    /\ \E message \in ToolMessages, input \in Inputs, global_tool_data \in ToolDatas,
          responses \in Queues :
         LET next == transition(fsm_state, message, input, global_tool_data, responses)
         IN  /\ call' = [op |-> "process_message", self |-> fsm_state, message |-> message,
                         input |-> input, global_tool_data |-> global_tool_data,
                         responses |-> responses]
             /\ fsm_state' = next.fsm_state
             /\ ret' = Returned(next.responses)
    /\ UNCHANGED <<features, cell, builds, tpc, top, tret>>

NextEyedropper ==
    \/ ProcessMessage
    \/ Return

InitEyedropper == Init /\ features = {}

SpecEyedropper == InitEyedropper /\ [][NextEyedropper]_vars

---------------------------------------------------------------------------
(* Properties of the registry and of instantiation, checked under Spec.    *)

Declared(self) == Len(self.inputs)

\* C1: to_document_node aborts exactly when the number of supplied inputs
\* differs from the number the descriptor declares; otherwise it returns a
\* node whose inputs are the supplied sequence and whose name is the
\* descriptor's name.
C1_InstantiateChecksInputCount ==
    call.op = "to_document_node" =>
        IF Len(call.inputs) # Declared(call.self)
        THEN ret.status = "panic"
        ELSE /\ ret.status = "ok"
             /\ Len(ret.value.inputs) = Len(call.inputs)
             /\ \A i \in 1..Len(call.inputs) : ret.value.inputs[i] = call.inputs[i]
             /\ ret.value.name = call.self.name

\* A call with fewer inputs than declared (but some) that aborted.
C1_Witness ==
    /\ call.op = "to_document_node"
    /\ Len(call.inputs) > 0
    /\ Len(call.inputs) < Declared(call.self)
    /\ ret.status = "panic"

CatalogNames(catalog) == {catalog[i].name : i \in 1..Len(catalog)}
CatalogEntries(catalog) == {catalog[i] : i \in 1..Len(catalog)}

\* C7: resolve_document_node_type returns the catalog descriptor whose name
\* is character for character the argument, and None for every other string.
C7_ResolveIsExactMatch ==
    call.op = "resolve_document_node_type" =>
        /\ ret.status = "ok"
        /\ IF call.name \in CatalogNames(cell.value)
           THEN /\ ret.value.some
                /\ ret.value.value \in CatalogEntries(cell.value)
                /\ ret.value.value.name = call.name
           ELSE ret.value = None

\* A miss on a string that differs from a catalog name only in letter case.
C7_Witness ==
    /\ call.op = "resolve_document_node_type"
    /\ call.name \notin CatalogNames(cell.value)
    /\ \E n \in CatalogNames(cell.value) : ToLower(n) = ToLower(call.name)
    /\ ret.value = None

\* The positions of the catalog that collect_node_types lists.
Listed(catalog) ==
    {i \in 1..Len(catalog) : ToLower(catalog[i].category) # <<"i","g","n","o","r","e">>}

\* The position of the catalog that the j-th listed entry comes from.
ListedAt(catalog, j) ==
    CHOOSE i \in Listed(catalog) : Cardinality({k \in Listed(catalog) : k <= i}) = j

InternalNames ==
    {<<"I","n","p","u","t"," ","F","r","a","m","e">>,
     <<"B","e","g","i","n"," ","S","c","o","p","e">>,
     <<"E","n","d"," ","S","c","o","p","e">>,
     <<"O","u","t","p","u","t">>,
     <<"I","m","a","g","e">>}

\* C8: collect_node_types lists, in catalog order, the (name, category) of
\* exactly the descriptors whose category is not "Ignore" in any letter case;
\* Input Frame, Begin Scope, End Scope, Output and Image are not listed
\* although they resolve.
C8_CollectSkipsIgnored ==
    call.op = "collect_node_types" =>
        /\ ret.status = "ok"
        /\ Len(ret.value) = Cardinality(Listed(cell.value))
        /\ \A j \in 1..Len(ret.value) :
              /\ ret.value[j].name = cell.value[ListedAt(cell.value, j)].name
              /\ ret.value[j].category = cell.value[ListedAt(cell.value, j)].category
        /\ \A n \in InternalNames :
              /\ \A j \in 1..Len(ret.value) : ret.value[j].name # n
              /\ resolve_in(cell.value, n).some

\* A listing that is non-empty and shorter than the catalog.
C8_Witness ==
    /\ call.op = "collect_node_types"
    /\ Len(ret.value) > 0
    /\ Len(ret.value) < Len(cell.value)

\* C9: to_document_node_default_inputs never fails the input-count check and
\* returns as many inputs as the descriptor declares: input i is override i
\* when that entry exists and is Some, and the descriptor's default for slot i
\* otherwise; overrides past the declared count are ignored.
C9_DefaultInputsByPosition ==
    call.op = "to_document_node_default_inputs" =>
        /\ ret.status = "ok"
        /\ Len(ret.value.inputs) = Declared(call.self)
        /\ \A i \in 1..Declared(call.self) :
              IF i <= Len(call.input_override) /\ call.input_override[i] # None
              THEN ret.value.inputs[i] = call.input_override[i].value
              ELSE ret.value.inputs[i] = call.self.inputs[i].default

\* More overrides than declared inputs, with both an empty and a present
\* entry among the ones that count, and a present one after the empty one.
C9_Witness ==
    /\ call.op = "to_document_node_default_inputs"
    /\ Len(call.input_override) > Declared(call.self)
    /\ \E i, j \in 1..Declared(call.self) :
          /\ i < j
          /\ call.input_override[i] = None
          /\ call.input_override[j] # None
    /\ ret.status = "ok"

---------------------------------------------------------------------------
(* wrap_network_in_scope.                                                  *)

Wrapping == call.op = "wrap_network_in_scope"

\* The <<node id, slot>> pairs of a network's free-input bindings.
FreeBindings(network) ==
    UNION {{<<id, i>> : i \in {j \in DOMAIN network.nodes[id].inputs :
                                  IsNetworkInput(network.nodes[id].inputs[j])}} :
           id \in NodeIds(network)}
Consumers(network) == {b[1] : b \in FreeBindings(network)}
BoundTypes(network) == {network.nodes[b[1]].inputs[b[2]] : b \in FreeBindings(network)}
HasNested(network) == \E id \in NodeIds(network) : network.nodes[id].implementation.kind = "Network"
WithoutPath(node) == [node EXCEPT !.path = NoPath]
SameNodesButPaths(a, b) ==
    /\ NodeIds(a) = NodeIds(b)
    /\ \A id \in NodeIds(a) : WithoutPath(a.nodes[id]) = WithoutPath(b.nodes[id])

\* C2 as stated: wrap_network_in_scope returns a network equal in all fields
\* to any network in which no node has a free-input binding.
C2_IdentityWithoutFreeInputs ==
    (Wrapping /\ FreeBindings(call.network) = {}) =>
        ret.status = "ok" /\ ret.value = call.network

\* C2, amended: for a network in which no node has a free-input binding,
\* wrap_network_in_scope returns no wrapper but the network after its flatten
\* pass with the free-input list replaced by the empty list: no node of the
\* result has a nested network or a free-input binding; when the network has
\* no nested-network node, its nodes (node paths aside) and outputs are
\* returned as they are; and the result equals the network in all fields
\* only if its free-input list was empty and it had no nested-network node.
C2_FlattenedWithEmptyInputs ==
    (Wrapping /\ FreeBindings(call.network) = {}) =>
        /\ ret.status = "ok"
        /\ ret.value.inputs = <<>>
        /\ ~HasNested(ret.value)
        /\ FreeBindings(ret.value) = {}
        /\ ~HasNested(call.network) =>
              /\ SameNodesButPaths(ret.value, call.network)
              /\ ret.value.outputs = call.network.outputs
        /\ ret.value = call.network =>
              /\ call.network.inputs = <<>>
              /\ ~HasNested(call.network)

\* A flat network without free-input bindings but with a free-input list
\* came back changed.
C2_Witness ==
    /\ Wrapping
    /\ FreeBindings(call.network) = {}
    /\ ~HasNested(call.network)
    /\ call.network.inputs # <<>>
    /\ ret.status = "ok"
    /\ ret.value # call.network
    /\ ret.value.inputs = <<>>

IsScopeWrapper(network, binding) ==
    /\ NodeIds(network) = {0, 1, 2}
    /\ network.nodes[0].name = BeginScopeName
    /\ network.nodes[1].name = ScopeName
    /\ network.nodes[2].name = EndScopeName
    /\ network.nodes[0].inputs = <<binding>>
    /\ Len(network.outputs) = 1

\* C3 as stated: wrapping a network with exactly one free-input-consuming
\* node returns the three-node wrapper.
C3_OneConsumerWrapped ==
    (Wrapping /\ Cardinality(Consumers(call.network)) = 1) =>
        /\ ret.status = "ok"
        /\ \A binding \in BoundTypes(call.network) : IsScopeWrapper(ret.value, binding)

\* C3, amended: wrapping a network with exactly one free-input-consuming
\* node, all of whose free-input bindings have the same declared type,
\* returns a network of exactly 3 nodes (ids 0, 1, 2: Begin Scope, Scope, End
\* Scope) whose node 0 has that binding as its single input and whose output
\* list has exactly one entry; when the node's free-input bindings differ in
\* type the call aborts.
C3_OneConsumerOneTypeWrapped ==
    (Wrapping /\ Cardinality(Consumers(call.network)) = 1) =>
        IF Cardinality(BoundTypes(call.network)) = 1
        THEN /\ ret.status = "ok"
             /\ \A binding \in BoundTypes(call.network) : IsScopeWrapper(ret.value, binding)
        ELSE ret.status = "panic" /\ ret.value = ScopeTypeMessage

\* One node with one free-input binding was wrapped.
C3_Witness ==
    /\ Wrapping
    /\ Cardinality(FreeBindings(call.network)) = 1
    /\ ret.status = "ok"
    /\ NodeIds(ret.value) = {0, 1, 2}
    /\ ret.value.nodes[0].inputs = <<Free(TyImageFrame)>>

\* C4: whenever the network, as flattened, holds two free-input bindings of
\* different declared types, wrap_network_in_scope aborts with the
\* same-input-type assertion and returns no network, whatever the order in
\* which the nodes are scanned.
C4_MixedTypesAbort ==
    (Wrapping /\ Cardinality(BoundTypes(BeforeScan(call.network, call.node_ids))) > 1) =>
        ret.status = "panic" /\ ret.value = ScopeTypeMessage

\* Two nodes with bindings of different types, scanned in descending order of
\* their ids: the call aborted.
C4_Witness ==
    /\ Wrapping
    /\ Cardinality(Consumers(call.network)) = 2
    /\ Cardinality(BoundTypes(call.network)) = 2
    /\ call.scan = <<1, 0>>
    /\ ret.status = "panic"

\* The networks a node of `network` nests directly.
NestedIn(network) ==
    {network.nodes[id].implementation.network :
        id \in {i \in NodeIds(network) : network.nodes[i].implementation.kind = "Network"}}

\* C5: after the flatten pass of wrap_network_in_scope (one flatten call per
\* node id present before the pass) no node of the network has a
\* nested-network implementation, whatever the nesting depth and the order of
\* the calls; so neither has a network returned without a wrapper, nor the
\* network inside the Scope node of a returned wrapper.
C5_FlattenPassComplete ==
    Wrapping =>
        /\ ~HasNested(BeforeScan(call.network, call.node_ids))
        /\ ret.status = "ok" =>
              IF ret.value.inputs = <<>> THEN ~HasNested(ret.value)
              ELSE ~HasNested(ret.value.nodes[1].implementation.network)

\* A network with a node nesting a network that nests another was flattened.
C5_Witness ==
    /\ Wrapping
    /\ \E inner \in NestedIn(call.network) : HasNested(inner)
    /\ Cardinality(NodeIds(call.network)) > 1
    /\ ret.status = "ok"

---------------------------------------------------------------------------
(* DOCUMENT_NODE_TYPES under concurrent first use.                         *)

C6_State ==
    /\ builds <= 1
    /\ (cell.state = "Init") <=> (builds = 1)
    /\ cell.state = "Init" => cell.value = static_nodes(features)
    /\ \A t \in Threads :
          /\ tpc[t] \in {"read", "done"} => cell.state = "Init"
          /\ tpc[t] = "done" => tret[t] = Answer(top[t], static_nodes(features))

C6_Step == cell.state = "Init" => (cell' = cell /\ builds' = builds)

\* C6: under any interleaving of threads calling resolve_document_node_type
\* or collect_node_types, static_nodes runs at most once and exactly once by
\* the time the catalog is there, every caller reads and answers from the
\* same fully built catalog, and once built the catalog never changes.
C6_BuiltOnceSharedImmutable == [](C6_State) /\ [][C6_Step]_vars

\* One thread has its answer while another, which found the builder
\* running, has yet to read.
C6_Witness ==
    \E t1, t2 \in Threads :
        /\ tpc[t1] = "done"
        /\ tpc[t2] = "wait"
        /\ builds = 1

---------------------------------------------------------------------------
(* Consistency of the catalog entries, checked under Spec.                 *)

Built == cell.state = "Init"

\* The <<entry, slot>> pairs of a catalog whose default is a literal value.
LiteralSlots(catalog) ==
    UNION {{<<i, j>> : j \in {s \in DOMAIN catalog[i].inputs : catalog[i].inputs[s].default.kind = "Value"}} :
           i \in DOMAIN catalog}

TagMatches(slot) == slot.data_type = with_tagged_value(slot.default.tagged_value)

GrayscaleName == <<"G","r","a","y","s","c","a","l","e">>
LoadImageName == <<"L","o","a","d"," ","I","m","a","g","e">>

\* C11: in the built catalog, every input slot whose default is a literal
\* value declares the data type derived from the tag of that value, whether
\* the slot was built with DocumentInputType::value or written out.
C11_DefaultsTagMatch ==
    Built => \A p \in LiteralSlots(cell.value) : TagMatches(cell.value[p[1]].inputs[p[2]])

\* The catalog is built and holds "Grayscale" with slot "Tint" declared a
\* Number over a Color literal, and "Load Image" with slot "path" declared
\* General over a String literal.
C11_Witness ==
    /\ Built
    /\ \E p \in LiteralSlots(cell.value) :
          /\ cell.value[p[1]].name = GrayscaleName
          /\ cell.value[p[1]].inputs[p[2]].name = "Tint"
          /\ cell.value[p[1]].inputs[p[2]].data_type = "Number"
          /\ cell.value[p[1]].inputs[p[2]].default.tagged_value.tag = "Color"
    /\ \E p \in LiteralSlots(cell.value) :
          /\ cell.value[p[1]].name = LoadImageName
          /\ cell.value[p[1]].inputs[p[2]].name = "path"
          /\ cell.value[p[1]].inputs[p[2]].data_type = "General"
          /\ cell.value[p[1]].inputs[p[2]].default.tagged_value.tag = "String"

\* The <<node id, slot>> pairs of a network's node-to-node references.
NodeRefs(network) ==
    UNION {{<<id, s>> : s \in {t \in DOMAIN network.nodes[id].inputs :
                                  network.nodes[id].inputs[t].kind = "Node"}} :
           id \in NodeIds(network)}

RefsResolve(network) ==
    /\ \A r \in NodeRefs(network) : network.nodes[r[1]].inputs[r[2]].node_id \in NodeIds(network)
    /\ \A k \in DOMAIN network.outputs : network.outputs[k].node_id \in NodeIds(network)

\* Every entry of the free-input list names a contained node, and no node is
\* named more often than it has free-input bindings.
FreeInputsReceived(network) ==
    \A k \in DOMAIN network.inputs :
        /\ network.inputs[k] \in NodeIds(network)
        /\ CountUpTo(network.inputs, Len(network.inputs), network.inputs[k])
              <= Len(NetworkSlots(network.nodes[network.inputs[k]].inputs))

NestedDescriptors(catalog) == {i \in DOMAIN catalog : catalog[i].identifier.kind = "DocumentNode"}

DrawCanvasName == <<"D","r","a","w"," ","C","a","n","v","a","s">>

\* C12: in the built catalog, in every descriptor implemented by a nested
\* network, every node-to-node reference and every output names a node of
\* the network, and every entry of the free-input list names a node with a
\* free-input (NodeInput::Network) binding to receive it.
C12_NetworksWellFormed ==
    Built => \A i \in NestedDescriptors(cell.value) :
                /\ RefsResolve(cell.value[i].identifier.network)
                /\ FreeInputsReceived(cell.value[i].identifier.network)

\* The catalog is built and holds "Draw Canvas" with free-input list [0, 2]
\* whose node 2 has no free-input binding, and "Begin Scope" with free-input
\* list [0] whose node 0 has none either.
C12_Witness ==
    /\ Built
    /\ \E i \in NestedDescriptors(cell.value) :
          /\ cell.value[i].name = DrawCanvasName
          /\ cell.value[i].identifier.network.inputs = <<0, 2>>
          /\ NetworkSlots(cell.value[i].identifier.network.nodes[2].inputs) = <<>>
    /\ \E i \in NestedDescriptors(cell.value) :
          /\ cell.value[i].name = BeginScopeName
          /\ cell.value[i].identifier.network.inputs = <<0>>
          /\ NetworkSlots(cell.value[i].identifier.network.nodes[0].inputs) = <<>>

---------------------------------------------------------------------------
(* The renderer.                                                           *)

RECURSIVE ContainsText(_)
ContainsText(element) ==
    CASE element.kind = "Text" -> TRUE
      [] element.kind = "GraphicGroup" ->
            \E i \in DOMAIN element.children : ContainsText(element.children[i])
      [] element.kind = "Artboard" ->
            \E i \in DOMAIN element.graphic_group.children :
                ContainsText(element.graphic_group.children[i])
      [] OTHER -> FALSE

\* C13: render_svg and bounding_box of a Text value abort, and so do they on
\* every group or artboard that holds a Text element at any depth; the Text
\* element is never skipped or taken for an empty element.
C13_TextAborts ==
    /\ (call.op = "render_svg" /\ ContainsText(call.self)) =>
            (ret.status = "panic" /\ ret.message = TextRenderMessage)
    /\ (call.op = "bounding_box" /\ ContainsText(call.self)) =>
            (ret.status = "panic" /\ ret.message = TextBoundsMessage)

\* A Text element behind an image frame, inside a group inside a group.
C13_Witness ==
    /\ call.op = "render_svg"
    /\ call.self = GraphicGroup(<<GraphicGroup(<<ImageFrame(PixelsA, DAffine2_IDENTITY),
                                                 Text("hello")>>)>>)
    /\ ret.status = "panic"

\* The text one attribute of a tag serialises to.
AttrText(attr) ==
    IF attr.name = "" THEN SegmentText(attr.value)
    ELSE " " \o attr.name \o "=\"" \o SegmentText(attr.value) \o "\""

RECURSIVE AttrsText(_)
AttrsText(attrs) == IF attrs = <<>> THEN "" ELSE AttrText(Head(attrs)) \o AttrsText(Tail(attrs))

\* The line break and tabs in front of a tag written at the render's depth.
LineStart(render) == "\n" \o repeat("\t", render.indent)

RECURSIVE FramesOf(_)
RECURSIVE FramesOfAll(_)
FramesOfAll(children) ==
    IF children = <<>> THEN <<>> ELSE FramesOf(Head(children)) \o FramesOfAll(Tail(children))
FramesOf(element) ==
    CASE element.kind = "ImageFrame" -> <<element>>
      [] element.kind = "GraphicGroup" -> FramesOfAll(element.children)
      [] element.kind = "Artboard" -> FramesOfAll(element.graphic_group.children)
      [] OTHER -> <<>>

\* The segments a render call added to the output it was given.
Emitted == SubSeq(ret.render.svg, Len(call.render.svg) + 1, Len(ret.render.svg))

\* The assets a render call added to the list it was given.
NewAssets == SubSeq(ret.render.image_data, Len(call.render.image_data) + 1,
                    Len(ret.render.image_data))

\* The ids of the blob references among segments, in order.
BlobIds(segments) ==
    LET at == SetToSeq({i \in DOMAIN segments : segments[i].kind = "BlobUrl"})
    IN  [k \in DOMAIN at |-> segments[at[k]].id]

\* The places of a sequence of segments where an image element starts.
ImageTags(segments) ==
    {i \in DOMAIN segments :
        /\ segments[i] = SvgSegment_Slice("image")
        /\ i > 1
        /\ segments[i - 1] = SvgSegment_Slice("<")}

\* C15: a render adds to the asset list one entry (id, pixel buffer) per
\* image frame of the scene, in render order, and writes one image element
\* per frame whose href is the blob reference with the entry's id; every
\* blob reference written names an entry of the list, and no pixel buffer
\* is written to the output.
C15_AssetsMatchBlobReferences ==
    (call.op = "render_svg" /\ ret.status = "ok") =>
        LET frames == FramesOf(call.self)
        IN  /\ SubSeq(ret.render.image_data, 1, Len(call.render.image_data))
                    = call.render.image_data
            /\ Len(NewAssets) = Len(frames)
            /\ \A k \in DOMAIN frames : NewAssets[k][2] = frames[k].image
            /\ Cardinality(ImageTags(Emitted)) = Len(frames)
            /\ BlobIds(Emitted) = [k \in DOMAIN NewAssets |-> NewAssets[k][1]]
            /\ \A i \in DOMAIN Emitted :
                 IF Emitted[i].kind = "BlobUrl"
                 THEN /\ i > 2
                      /\ Emitted[i - 1] = SvgSegment_Slice("=\"")
                      /\ Emitted[i - 2] = SvgSegment_Slice("href")
                      /\ \E j \in ImageTags(Emitted) :
                            /\ j < i
                            /\ \A m \in (j + 1)..(i - 1) : Emitted[m] # SvgSegment_Slice("/>")
                      /\ \E k \in DOMAIN ret.render.image_data :
                            ret.render.image_data[k][1] = Emitted[i].id
                 ELSE Emitted[i].text \notin {PixelsA, PixelsB}

\* A clipped artboard with two image frames, rendered into a context that
\* already holds output and an asset; the two frames get different ids.
C15_Witness ==
    /\ call.op = "render_svg"
    /\ call.self.kind = "Artboard"
    /\ call.self.clip
    /\ call.render = UsedRender
    /\ ret.status = "ok"
    /\ Len(FramesOf(call.self)) = 2
    /\ Len(ret.render.image_data) = 3
    /\ ret.render.image_data[2][1] # ret.render.image_data[3][1]

\* The corners of the unit square, carried through the accumulated
\* transform and then through the frame's own.
UnitSquareThrough(local, accumulated) ==
    {transform_point2(local, transform_point2(accumulated, corner)) :
        corner \in {DVec2(0, 0), DVec2(1, 0), DVec2(0, 1), DVec2(1, 1)}}

\* The product of two 2x2 matrices, entry by entry.
Linear(a, b) ==
    <<a[1] * b[1] + a[3] * b[2], a[2] * b[1] + a[4] * b[2],
      a[1] * b[3] + a[3] * b[4], a[2] * b[3] + a[4] * b[4]>>

\* C16: an image frame whose own transform has a zero linear part has no
\* bounding box, whatever its translation and the accumulated transform;
\* when the linear part of own * accumulated is not zero the box is the
\* axis-aligned box of the unit square carried through that product.
C16_ImageFrameBounds ==
    (call.op = "bounding_box" /\ call.self.kind = "ImageFrame") =>
        LET local == call.self.transform
            corners == UnitSquareThrough(local, call.transform)
        IN  /\ ret.status = "ok"
            /\ local.matrix2 = DMat2_ZERO => ret.box = None
            /\ Linear(local.matrix2, call.transform.matrix2) # DMat2_ZERO =>
                    ret.box = Some(<< <<MinOf({p[1] : p \in corners}), MinOf({p[2] : p \in corners})>>,
                                      <<MaxOf({p[1] : p \in corners}), MaxOf({p[2] : p \in corners})>> >>)

\* A frame whose own transform only translates, asked under a stretching
\* accumulated transform: no box.
C16_Witness ==
    /\ call.op = "bounding_box"
    /\ call.self = ImageFrame(PixelsA, ZeroLinear)
    /\ call.transform = Stretch
    /\ ret = Bounded(None)

\* The boxes of the children of a group that have one, under a transform.
ChildBoxes(children, transform) ==
    {bounding_box(children[i], transform).box.value :
        i \in {j \in DOMAIN children : bounding_box(children[j], transform).box.some}}

\* C17: the bounding box of a group under a transform is the union, by the
\* least and greatest coordinates, of the boxes of the children that have
\* one under that transform; it is None exactly when there are no children
\* or no child has a box; a child without a box changes nothing.
C17_GroupBoundsUnion ==
    (call.op = "bounding_box" /\ call.self.kind = "GraphicGroup" /\ ret.status = "ok") =>
        LET boxes == ChildBoxes(call.self.children, call.transform)
        IN  /\ ret.box.some <=> boxes # {}
            /\ boxes # {} =>
                 ret.box.value =
                    << <<MinOf({b[1][1] : b \in boxes}), MinOf({b[1][2] : b \in boxes})>>,
                       <<MaxOf({b[2][1] : b \in boxes}), MaxOf({b[2][2] : b \in boxes})>> >>

\* A group of three: a child with a box, a child without one, and another
\* child whose box differs from the first; the union is larger than either.
C17_Witness ==
    /\ call.op = "bounding_box"
    /\ call.self.kind = "GraphicGroup"
    /\ Len(call.self.children) = 3
    /\ ret.status = "ok"
    /\ ~bounding_box(call.self.children[2], call.transform).box.some
    /\ bounding_box(call.self.children[1], call.transform).box.some
    /\ bounding_box(call.self.children[3], call.transform).box.some
    /\ ret.box.some
    /\ ret.box # bounding_box(call.self.children[1], call.transform).box
    /\ ret.box # bounding_box(call.self.children[3], call.transform).box

\* The orders in which n children can be listed.
ChildOrders(n) == {p \in [1..n -> 1..n] : \A i, j \in 1..n : p[i] = p[j] => i = j}

\* C18: the bounding box of a group does not depend on the order of its
\* children: every permutation of the children gives the same outcome,
\* whether or not each child has a box.
C18_GroupBoundsOrderFree ==
    (call.op = "bounding_box" /\ call.self.kind = "GraphicGroup") =>
        \A p \in ChildOrders(Len(call.self.children)) :
            bounding_box(GraphicGroup([i \in DOMAIN call.self.children |->
                                            call.self.children[p[i]]]), call.transform) = ret

\* Two children with different boxes around a child without one.
C18_Witness ==
    /\ call.op = "bounding_box"
    /\ call.self.kind = "GraphicGroup"
    /\ Len(call.self.children) = 3
    /\ call.transform = QuarterTurn
    /\ ret.status = "ok"
    /\ ret.box.some
    /\ ~bounding_box(call.self.children[1], call.transform).box.some
    /\ bounding_box(call.self.children[2], call.transform).box.some
    /\ bounding_box(call.self.children[3], call.transform).box.some
    /\ bounding_box(call.self.children[2], call.transform)
            # bounding_box(call.self.children[3], call.transform)

\* The artboard of the scenario: at (0, 0), 100 by 100, clipping, empty.
ScenarioArtboard ==
    Artboard(GraphicGroup(<<>>), DVec2(0, 0), DVec2(100, 100), "ffffffff", TRUE)

\* C19: rendering an artboard at (0, 0) of dimensions (100, 100) with
\* clip = true and an empty group writes, in this order, one background rect
\* of width 100 and height 100 at x = 0, y = 0, one text label holding
\* "Artboard", and one self-closing contents group whose clip-path names the
\* id of the one clipPath definition the call added to the defs; nothing
\* else is written and the asset list stays as it was.
C19_ArtboardScenario ==
    (call.op = "render_svg" /\ call.self = ScenarioArtboard) =>
        LET start == LineStart(call.render)
            id == "artboard-" \o to_string(Head(call.uuids))
        IN  /\ ret.status = "ok"
            /\ SubSeq(ret.render.svg, 1, Len(call.render.svg)) = call.render.svg
            /\ fmt(Emitted) =
                    start \o "<rect class=\"artboard-bg\" fill=\"#ffffffff\""
                          \o " x=\"0\" y=\"0\" width=\"100\" height=\"100\"/>"
                    \o start \o "<text class=\"artboard-label\" fill=\"white\""
                          \o " x=\"0\" y=\"-4\" font-size=\"14px\">Artboard"
                    \o start \o "</text>"
                    \o start \o "<g class=\"artboard\" clip-path=\"url(#" \o id \o ")\"/>"
            /\ ret.render.svg_defs =
                    call.render.svg_defs \o "<clipPath id=\"" \o id \o "\">"
                        \o "<rect x=\"0\" y=\"0\" width=\"100\" height=\"100\"/></clipPath>"
            /\ ret.render.image_data = call.render.image_data

\* The scenario's artboard rendered into a context already in use.
C19_Witness ==
    /\ call.op = "render_svg"
    /\ call.self = ScenarioArtboard
    /\ call.render = UsedRender
    /\ ret.status = "ok"
    /\ ret.render.svg_defs # call.render.svg_defs

---------------------------------------------------------------------------
(* Network construction helpers.                                           *)

\* C20: new_vector_network with an empty subpath list returns a network of
\* exactly 5 nodes, created in the order Shape, Transform, Fill, Stroke,
\* Output, each after the first connected to the one before, and the
\* network's outputs name output 0 of the fifth node.
C20_VectorNetworkChain ==
    (call.op = "new_vector_network" /\ call.subpaths = "vec![]") =>
        /\ ret.status = "ok"
        /\ DOMAIN ret.value.nodes = 0..4
        /\ [id \in 0..4 |-> ret.value.nodes[id].name]
                = [id \in 0..4 |-> <<ShapeName, TransformName, FillName, StrokeName,
                                     OutputName>>[id + 1]]
        /\ \A id \in 1..4 :
             /\ ret.value.nodes[id].inputs[1].kind = "Node"
             /\ ret.value.nodes[id].inputs[1].node_id = id - 1
             /\ ret.value.nodes[id].inputs[1].output_index = 0
        /\ \A id \in 0..4 : \A slot \in DOMAIN ret.value.nodes[id].inputs :
             (ret.value.nodes[id].inputs[slot].kind = "Node") => (id > 0 /\ slot = 1)
        /\ ret.value.nodes[0].inputs[1]
                = NodeInput_value(TaggedValue("Subpaths", "vec![]"), FALSE)
        /\ ret.value.outputs = <<NodeOutput_new(4, 0)>>

\* The network for the empty list is returned, with its five nodes.
C20_Witness ==
    /\ call.op = "new_vector_network"
    /\ call.subpaths = "vec![]"
    /\ ret.status = "ok"
    /\ Cardinality(DOMAIN ret.value.nodes) = 5

\* The type names the network construction helpers and the scope wrapper
\* look up.
HelperLookups ==
    {InputFrameName, OutputName, ShapeName, TransformName, FillName, StrokeName, TextName,
     BeginScopeName, EndScopeName}

\* The number of inputs each helper passes to a direct to_document_node call.
DirectInputCounts ==
    {<<OutputName, 1>>, <<TextName, 4>>, <<BeginScopeName, 1>>, <<EndScopeName, 2>>}

\* C21: every type name the network construction helpers and the scope
\* wrapper look up is in the catalog, every direct to_document_node call
\* they make passes as many inputs as the type declares (1 for Output, 4
\* for Text, 1 for Begin Scope, 2 for End Scope), and so no helper call
\* ends in the lookup expectation or the input-count assertion.
C21_HelpersFindTheirTypes ==
    /\ Built =>
         /\ \A name \in HelperLookups : resolve_in(cell.value, name).some
         /\ \A pair \in DirectInputCounts :
                Declared(resolve_in(cell.value, pair[1]).value) = pair[2]
    /\ call.op \in {"new_image_network", "new_vector_network", "new_text_network"} =>
         \/ ret.status = "ok"
         \/ /\ call.op = "new_image_network"
            /\ call.overflow_checks
            /\ call.output_offset > I32_MAX - 8
            /\ ret.status = "panic"
            /\ ret.value = OverflowMessage

\* A text network is returned: the Text type was found and took the four
\* inputs passed to it.
C21_Witness ==
    /\ call.op = "new_text_network"
    /\ ret.status = "ok"
    /\ ret.value.nodes[0].name = TextName
    /\ Len(ret.value.nodes[0].inputs) = 4
    /\ ret.value.outputs = <<NodeOutput_new(4, 0)>>

---------------------------------------------------------------------------
(* The properties panel, checked under SpecProps.                          *)

\* C22: generate_node_properties on a node whose name is not in the
\* catalog does not fail: it returns a section named after the node whose
\* layout is the one row "Node '<name>' cannot be found in library"; when
\* the name is in the catalog the layout is what the descriptor's
\* properties callback returns.
C22_MissIsPlaceholder ==
    call.op = "generate_node_properties" =>
        LET name == call.document_node.name
            found == resolve_in(cell.value, name)
        IN  IF ~found.some
            THEN /\ ret.status = "ok"
                 /\ ret.value.group = "Section"
                 /\ ret.value.name = name
                 /\ ret.value.layout =
                        <<LayoutGroup_Row(<<TextLabel_new(
                            "Node '" \o chars_to_string(name)
                                \o "' cannot be found in library")>>)>>
            ELSE LET made == call_properties(found.value.properties, call.document_node,
                                             call.node_id)
                 IN  IF made.status = "panic" THEN ret.status = "panic"
                     ELSE /\ ret.status = "ok"
                          /\ ret.value = LayoutGroup_Section(name, made.value)

\* A node named as a catalog entry but for the case of its letters.
C22_Witness ==
    /\ call.op = "generate_node_properties"
    /\ call.document_node.name = ToLower(ChannelMixerName)
    /\ ret.status = "ok"
    /\ ret.value.layout =
            <<LayoutGroup_Row(<<TextLabel_new(
                "Node 'channel mixer' cannot be found in library")>>)>>

\* The input a panel call reads at `index`, and whether it is a literal
\* of the choice type `tag`.
ChoiceLookupFails(index, tag) ==
    \/ index + 1 \notin DOMAIN call.document_node.inputs
    \/ ~IsValue(call.document_node.inputs[index + 1], tag)

\* C23: when the input at the hard-coded choice index (18 for Channel
\* Mixer, 38 for Selective Color) is not a literal of the expected choice
\* type, building the panel aborts instead of returning an empty or
\* partial panel.
C23_MalformedLookupAborts ==
    /\ (call.op = "adjust_channel_mixer_properties"
            /\ ChoiceLookupFails(output_channel_index, "RedGreenBlue"))
        => ret.status = "panic"
    /\ (call.op = "adjust_selective_color_properties"
            /\ ChoiceLookupFails(colors_index, "SelectiveColorChoice"))
        => ret.status = "panic"

\* A Selective Color node whose Colors input is fed by another node gets
\* an empty panel.
C23_Witness ==
    /\ call.op = "adjust_selective_color_properties"
    /\ Len(call.document_node.inputs) = colors_index + 1
    /\ call.document_node.inputs[colors_index + 1] = NodeInput_node(0, 0)
    /\ ret = Returned(<<>>)

\* The name of the descriptor's input at a position counted from zero;
\* no name when the descriptor has no such input.
SlotAt(self, index) ==
    IF index + 1 \in DOMAIN self.inputs THEN Some(self.inputs[index + 1].name) ELSE None

Inks == <<"Cyan", "Magenta", "Yellow", "Black">>
Channels == <<"Red", "Green", "Blue", "Constant">>

\* The input index and the label a number row was built with.
RowIndex(row) == row.widgets[1].input_index
RowLabel(row) == row.widgets[3].value

SelectiveColorTableSynchronized(self) ==
    /\ SlotAt(self, colors_index) = Some("Colors")
    /\ SlotAt(self, mode_index) = Some("Mode")
    /\ \A i \in DOMAIN SelectiveColorChoice : \A k \in 1..4 :
          LET used == cmyk(SelectiveColorChoice[i].variant)[k]
          IN  /\ used[2] = "(" \o SelectiveColorChoice[i].label \o ") " \o Inks[k]
              /\ SlotAt(self, used[1]) = Some(used[2])

ChannelMixerTableSynchronized(self) ==
    /\ SlotAt(self, output_channel_index) = Some("Output Channel")
    /\ SlotAt(self, monochrome_index) = Some("Monochrome")
    /\ \A k \in 1..4 :
          LET used == channel_values(TRUE, RedGreenBlue[1].variant)[k]
          IN  /\ used[1] = 1 + k
              /\ used[2] = Channels[k]
              /\ SlotAt(self, used[1]) = Some(used[2])
    /\ \A i \in DOMAIN RedGreenBlue : \A k \in 1..4 :
          LET used == channel_values(FALSE, RedGreenBlue[i].variant)[k]
          IN  /\ used[2] = "(" \o RedGreenBlue[i].label \o ") " \o Channels[k]
              /\ SlotAt(self, used[1]) = Some(used[2])

\* C26: the index tables of the Selective Color and Channel Mixer panels
\* follow the descriptors' slot order: for every choice the four indices
\* used are the positions of the inputs named "(<Choice>) Cyan/Magenta/
\* Yellow/Black" (Selective Color; 38 is "Colors", 1 is "Mode") and
\* "(<Channel>) Red/Green/Blue/Constant" (Channel Mixer; 2-5 the monochrome
\* inputs, 1 is "Monochrome", 18 is "Output Channel"), all within the
\* descriptor's input count; and the number rows of a built panel carry
\* the index of the input they are labelled with.
C26_IndexTablesSynchronized ==
    /\ call.op = "adjust_selective_color_properties" =>
          LET self == resolve_in(cell.value, SelectiveColorName).value
          IN  /\ SelectiveColorTableSynchronized(self)
              /\ (ret.status = "ok" /\ ret.value # <<>>) =>
                    \A k \in 1..4 :
                        SlotAt(self, RowIndex(ret.value[1 + k]))
                            = Some(RowLabel(ret.value[1 + k]))
    /\ call.op = "adjust_channel_mixer_properties" =>
          LET self == resolve_in(cell.value, ChannelMixerName).value
          IN  /\ ChannelMixerTableSynchronized(self)
              /\ (ret.status = "ok" /\ ret.value # <<>>) =>
                    \A k \in 1..4 :
                        LET row == ret.value[Len(ret.value) - 4 + k]
                        IN  SlotAt(self, RowIndex(row)) = Some(RowLabel(row))

\* The panel of a Selective Color node whose choice is the last one.
C26_Witness ==
    /\ call.op = "adjust_selective_color_properties"
    /\ Len(call.document_node.inputs) = colors_index + 1
    /\ call.document_node.inputs[colors_index + 1] =
          NodeInput_value(TaggedValue("SelectiveColorChoice", "SelectiveColorChoice::Blacks"),
                          FALSE)
    /\ ret.status = "ok"
    /\ Len(ret.value) = 6
    /\ RowIndex(ret.value[5]) = 37
    /\ RowLabel(ret.value[5]) = "(Blacks) Black"

\* The entries of a dropdown in the order it lists them, group after group.
RECURSIVE EntriesInOrder(_)
EntriesInOrder(groups) ==
    IF groups = <<>> THEN <<>> ELSE Head(groups) \o EntriesInOrder(Tail(groups))

\* The modes the dropdown offers.
OfferedModes ==
    UNION {{BlendMode_list[g][i] : i \in DOMAIN BlendMode_list[g]} : g \in DOMAIN BlendMode_list}

\* The blend-mode input of the call, when it holds an unexposed literal.
HeldMode ==
    LET inputs == call.document_node.inputs
    IN  IF /\ call.op = "blend_mode"
           /\ call.index + 1 \in DOMAIN inputs
           /\ IsUnexposedValue(inputs[call.index + 1], "BlendMode")
        THEN Some(inputs[call.index + 1].tagged_value.val)
        ELSE None

\* C30: for every mode of BlendMode::list(), when the node's blend-mode
\* input holds it as an unexposed literal, the dropdown's selected index,
\* counted over the entries as the widget lists them, is the entry labelled
\* with that mode.
C30_SelectedEntryIsHeldMode ==
    (HeldMode.some /\ HeldMode.value \in OfferedModes /\ ret.status = "ok") =>
        LET widgets == ret.value.widgets
            dropdown == widgets[Len(widgets)]
            listed == EntriesInOrder(dropdown.entries)
        IN  /\ dropdown.widget = "DropdownInput"
            /\ dropdown.selected_index + 1 \in DOMAIN listed
            /\ listed[dropdown.selected_index + 1].label
                    = variant_to_string(BlendMode, HeldMode.value)

\* A node holding Multiply: the index selected is that of the entry
\* labelled "Darken".
C30_Witness ==
    /\ HeldMode = Some("BlendMode::Multiply")
    /\ ret.status = "ok"
    /\ LET dropdown == ret.value.widgets[Len(ret.value.widgets)]
       IN  /\ dropdown.selected_index = 1
           /\ EntriesInOrder(dropdown.entries)[2].label = "Darken"

---------------------------------------------------------------------------
(* The shape of the wrapper, checked under SpecWrap.                       *)

Occurrences(seq, x) == Cardinality({i \in DOMAIN seq : seq[i] = x})

\* The network of the call after its flatten pass, as the scan finds it.
Scanned == BeforeScan(call.network, call.node_ids)

\* C24: when wrap_network_in_scope wraps (the flattened network has a free-
\* input binding), the result has free-input list [0] and output list
\* [(2, 0)]; node 1 holds the flattened network and has one input per
\* free-input binding of it, each a reference to output 1 of node 0; the
\* inner network's free-input list has that length and lists each consuming
\* node once per free-input binding of that node; node 2 has exactly the
\* inputs (0, 0) and (1, 0).
C24_WrapperShape ==
    (Wrapping /\ FreeBindings(Scanned) # {} /\ ret.status = "ok") =>
        /\ ret.value.inputs = <<0>>
        /\ ret.value.outputs = <<NodeOutput_new(2, 0)>>
        /\ NodeIds(ret.value) = {0, 1, 2}
        /\ ret.value.nodes[1].implementation.kind = "Network"
        /\ LET inner == ret.value.nodes[1].implementation.network
               scope_inputs == ret.value.nodes[1].inputs
           IN  /\ [inner EXCEPT !.inputs = Scanned.inputs] = Scanned
               /\ Len(scope_inputs) = Cardinality(FreeBindings(Scanned))
               /\ \A i \in DOMAIN scope_inputs : scope_inputs[i] = NodeInput_node(0, 1)
               /\ Len(inner.inputs) = Len(scope_inputs)
               /\ \A id \in NodeIds(Scanned) :
                     Occurrences(inner.inputs, id)
                        = Cardinality({b \in FreeBindings(Scanned) : b[1] = id})
        /\ ret.value.nodes[2].inputs = <<NodeInput_node(0, 0), NodeInput_node(1, 0)>>

\* A network wrapped with more than one free-input binding, two of them on
\* one node.
C24_Witness ==
    /\ Wrapping
    /\ ret.status = "ok"
    /\ \E id \in NodeIds(Scanned) :
          Cardinality({b \in FreeBindings(Scanned) : b[1] = id}) = 2
    /\ Cardinality(FreeBindings(Scanned)) > 2
    /\ Len(ret.value.nodes[1].inputs) = Cardinality(FreeBindings(Scanned))

---------------------------------------------------------------------------
(* The artboard's clip boundary, checked under SpecRender.                 *)

\* The places of a sequence of segments where an attribute `name` is written.
AttrPlaces(segments, name) ==
    {i \in DOMAIN segments :
        /\ segments[i] = SvgSegment_Slice(name)
        /\ i > 1 /\ segments[i - 1] = SvgSegment_Slice(" ")
        /\ i + 2 <= Len(segments) /\ segments[i + 1] = SvgSegment_Slice("=\"")}

\* The value of the first attribute `name` among segments.
FirstAttr(segments, name) ==
    LET i == CHOOSE i \in AttrPlaces(segments, name) :
                \A j \in AttrPlaces(segments, name) : i <= j
    IN  SegmentText(segments[i + 2])

\* C25: for every artboard with clip set, negative width or height
\* included, the rect of the clipPath added to the defs has the x, y, width
\* and height of the background rect written for the artboard, and the
\* contents group's clip-path names that clipPath's id; with clip unset the
\* defs stay as they were and the contents group has no clip-path.
C25_ClipMatchesBackground ==
    (call.op = "render_svg" /\ call.self.kind = "Artboard" /\ ret.status = "ok") =>
        IF call.self.clip
        THEN LET id == "artboard-" \o to_string(Head(call.uuids))
             IN  /\ ret.render.svg_defs =
                        call.render.svg_defs \o "<clipPath id=\"" \o id \o "\"><rect x=\""
                            \o FirstAttr(Emitted, "x") \o "\" y=\"" \o FirstAttr(Emitted, "y")
                            \o "\" width=\"" \o FirstAttr(Emitted, "width")
                            \o "\" height=\"" \o FirstAttr(Emitted, "height")
                            \o "\"/></clipPath>"
                 /\ FirstAttr(Emitted, "clip-path") = "url(#" \o id \o ")"
        ELSE /\ ret.render.svg_defs = call.render.svg_defs
             /\ AttrPlaces(Emitted, "clip-path") = {}

\* A clipping artboard at (5, 5) of dimensions (-3, 2): the background rect
\* starts at x = 2 and is 3 wide, the clip rect starts at x = 5 and is -3
\* wide.
C25_Witness ==
    /\ call.op = "render_svg"
    /\ call.self = Artboard(GraphicGroup(<<>>), DVec2(5, 5), DVec2(-3, 2), "ffffffff", TRUE)
    /\ call.render = SvgRender_new
    /\ ret.status = "ok"
    /\ FirstAttr(Emitted, "x") = "2"
    /\ FirstAttr(Emitted, "width") = "3"
    /\ ret.render.svg_defs =
            "<clipPath id=\"artboard-" \o to_string(Head(call.uuids))
                \o "\"><rect x=\"5\" y=\"5\" width=\"-3\" height=\"2\"/></clipPath>"

---------------------------------------------------------------------------
(* The eyedropper tool, checked under SpecEyedropper.                      *)

Sampling == {SamplingPrimary, SamplingSecondary}

\* The step handles the eyedropper message `event`.
Handles(event) ==
    /\ call'.op = "process_message"
    /\ call'.message = ToolMessage_Eyedropper(event)

\* C27: a sampling state is entered only from Ready by a pointer-down
\* (LeftPointerDown gives SamplingPrimary, RightPointerDown gives
\* SamplingSecondary); once sampling, the kind of sampling stays until the
\* machine is back in Ready: PointerMove, LeftPointerDown and
\* RightPointerDown leave the state as it is and no step leads from one
\* sampling state to the other.
C27_SamplingKindStable ==
    [][/\ (fsm_state' \in Sampling /\ fsm_state' # fsm_state) =>
              /\ fsm_state = Ready
              /\ \/ Handles(LeftPointerDown) /\ fsm_state' = SamplingPrimary
                 \/ Handles(RightPointerDown) /\ fsm_state' = SamplingSecondary
       /\ (fsm_state = Ready /\ Handles(LeftPointerDown)) => fsm_state' = SamplingPrimary
       /\ (fsm_state = Ready /\ Handles(RightPointerDown)) => fsm_state' = SamplingSecondary
       /\ fsm_state \in Sampling => fsm_state' \in {fsm_state, Ready}
       /\ (fsm_state \in Sampling
              /\ (Handles(PointerMove) \/ Handles(LeftPointerDown)
                    \/ Handles(RightPointerDown))) => fsm_state' = fsm_state
      ]_vars

\* The left button was pressed while the secondary colour was being sampled.
C27_Witness ==
    /\ call.op = "process_message"
    /\ call.self = SamplingSecondary
    /\ call.message = ToolMessage_Eyedropper(LeftPointerDown)
    /\ fsm_state = SamplingSecondary

\* The messages the handler added to the queue it was given.
Responded == SubSeq(ret.value, Len(call.responses) + 1, Len(ret.value))

PreviewDisabled == UpdateEyedropperSamplingState(None, "", "", None)

\* The sampling-state update of the handler's inputs with a colour choice.
PreviewWith(choice) ==
    UpdateEyedropperSamplingState(Some(call.input.mouse.position),
                                  "#" \o call.global_tool_data.primary_color,
                                  "#" \o call.global_tool_data.secondary_color, choice)

=============================================================================
